---- MODULE Spec2Model ----
(***************************************************************************)
(* Market-making engines of the repository:                                *)
(*   "follow" : FollowMMEngine   of src/bot/modes/mm/mode_binance_follow.py *)
(*   "dual"   : DualSideMMEngine of src/bot/modes/mm/mode_binance_dual.py   *)
(*   "legacy" : FollowMMEngine   of src/project_root/modes/mm/...           *)
(* The control thread of run_mm is modelled step by step: pc is its        *)
(* position, one action per adapter round trip or handler.  The venue      *)
(* (order book, balances) and the reference price feed are external; their *)
(* answers are drawn from small sets.                                      *)
(*                                                                         *)
(* Units.  Prices are integers in units of the precision of the engine's   *)
(* _normalize_price: 1e-8 USDT in src/bot (round(price, 8)), 1e-3 USDT in  *)
(* src/project_root (round(price, 3)).  Quantities are integers in units   *)
(* of 1e-8 coin (the precision of _normalize_qty); notionals are in price  *)
(* unit * quantity unit.  The configuration instance keeps every product   *)
(* inside 32-bit integers.                                                 *)
(***************************************************************************)
EXTENDS Integers, Sequences, FiniteSets, TLC

\* ------------------------------------------------------------------ bounds
\* wall-clock horizon of a run, in control-loop sleeps
MaxClock == 2
\* number of adapter / feed failures injected in one run (the failed
\* attempts of one retry loop count as one failure)
MaxFaults == 1
\* number of orders other participants submit in one run
MaxEnv == 1
\* resting orders the venue accepts per side (a further order is refused)
MaxBook == 5
\* largest cfg.levels the planner is called with on its own
MaxPlanLevels == 3

\* ----------------------------------------------- configuration (src/bot/config.py)
MM_LEVELS == 2
MM_REBALANCE_INTERVAL_SEC == 2
MM_REFILL_INTERVAL_SEC == 1
\* MM_STEP_PERCENT, in percent
MM_STEP_PERCENT == 1
MM_MAX_CANCEL_OPS_PER_CYCLE == 1
\* MM_BUY_BUDGET_RATIO and MM_SELL_QTY_RATIO, in tenths (5 is 0.5)
MM_BUY_BUDGET_RATIO == 5
MM_SELL_QTY_RATIO == 5
\* ANCHOR_ORDER_BUDGET_RATIO, in tenths (5 is 0.5)
ANCHOR_ORDER_BUDGET_RATIO == 5
\* MIN_ORDER_USDT, in notional units
MIN_ORDER_USDT == 500000
FLAG_REMOVE_EXCESS_ORDERS_ENABLE == TRUE
FLAG_ADJUSTMENT_ENABLE == FALSE
MM_DISTRIBUTION_MODE == "PYRAMID"
\* max_retries of _retry_order, max_attempts of _ensure_clean_start
MaxRetries == 3
MaxAttempts == 3
\* fixed_amount of the follow engine, bid_fixed_amount / ask_fixed_amount of
\* the dual engine, in notional units
FixedAmount == 4000000
BidFixedAmount == 4000000
AskFixedAmount == 4000000

\* Optional[float] = None (no price is negative)
None == -1

Sides == {"bid", "ask"}
Opp(s) == IF s = "bid" THEN "ask" ELSE "bid"

\* ------------------------------------------------------ external answers
\* prices the reference feed can return, in price units
FeedPrices == {99900, 100000, 100300, 100500}
\* available USDT the page can show (notional units)
UsdtBalances == {0, 10000000}
\* available coin quantity the page can show (quantity units)
CoinBalances == {0, 100}
\* limit orders other participants can submit
OtherOrders ==
  { [side |-> "ask", price |-> 90000, qty |-> 60],
    [side |-> "bid", price |-> 110000, qty |-> 60] }

\* ------------------------------------------------------------ arithmetic
Abs(x) == IF x < 0 THEN -x ELSE x
Max(a, b) == IF a >= b THEN a ELSE b
Largest(S) == CHOOSE x \in S : \A y \in S : y <= x

\* round(n / d) to the nearest integer, ties to even, as Python's round()
RoundDiv(n, d) ==
  LET q == n \div d
      r == n % d
  IN  IF 2 * r < d THEN q
      ELSE IF 2 * r > d THEN q + 1
      ELSE IF q % 2 = 0 THEN q ELSE q + 1

\* _normalize_price(price): round(float(price), 8) in src/bot, and
\* round(float(price), 3) in src/project_root, each to the price unit of
\* its engine; num/den is the exact value in price units
NormalizePrice(e, num, den) == RoundDiv(num, den)

\* _normalize_qty(qty): round(float(qty), 8); num/den in quantity units
NormalizeQty(num, den) == RoundDiv(num, den)

\* price_str = f"{price:.6f}": the price the venue receives has 6 decimals,
\* two fewer than a normalized price of src/bot and three more than one of
\* src/project_root
SubmittedPrice(e, price) ==
  IF e = "legacy" THEN price ELSE RoundDiv(price, 100) * 100

\* qty_str = f"{qty:.8f}": 8 decimals, the quantity unit
SubmittedQty(qty) == qty

RECURSIVE Pow(_, _)
Pow(b, k) == IF k = 0 THEN 1 ELSE b * Pow(b, k - 1)

RECURSIVE SumQty(_)
SumQty(rows) == IF rows = <<>> THEN 0 ELSE Head(rows).qty + SumQty(Tail(rows))

\* ----------------------------------------------------------------- venue
\* book[s] : resting limit orders of side s in time priority,
\*           [price, qty, mine]; mine = submitted by this engine's account

\* an incoming order of side s at price p can trade with resting order r
Crosses(s, p, r) == IF s = "bid" THEN r.price <= p ELSE r.price >= p

\* index of the resting order an incoming order of side s at p trades with
\* first (best price, then oldest), 0 when none
BestIdx(rows, s, p) ==
  LET C == { i \in 1..Len(rows) : Crosses(s, p, rows[i]) }
  IN  IF C = {} THEN 0
      ELSE CHOOSE i \in C : \A j \in C :
             IF s = "bid"
               THEN rows[i].price < rows[j].price
                    \/ (rows[i].price = rows[j].price /\ i <= j)
               ELSE rows[i].price > rows[j].price
                    \/ (rows[i].price = rows[j].price /\ i <= j)

RemoveAt(rows, i) == SubSeq(rows, 1, i - 1) \o SubSeq(rows, i + 1, Len(rows))

\* price-time matching of an incoming order against the opposite rows
RECURSIVE Match(_, _, _, _)
Match(rows, s, p, q) ==
  LET i == BestIdx(rows, s, p)
  IN  IF q = 0 \/ i = 0 THEN [rows |-> rows, left |-> q]
      ELSE IF rows[i].qty <= q
             THEN Match(RemoveAt(rows, i), s, p, q - rows[i].qty)
             ELSE [rows |-> [rows EXCEPT ![i].qty = rows[i].qty - q], left |-> 0]

\* the book after the venue accepted a limit order
Accept(bk, s, p, q, mine) ==
  LET m == Match(bk[Opp(s)], s, p, q)
  IN  [bk EXCEPT ![Opp(s)] = m.rows,
                 ![s] = IF m.left > 0
                          THEN Append(bk[s], [price |-> p, qty |-> m.left, mine |-> mine])
                          ELSE bk[s]]

IsMine(r) == r.mine

\* read_open_orders_side(driver, side): this account's resting rows
ReadOpenOrdersSide(bk, s) == SelectSeq(bk[s], IsMine)

\* read_orderbook(driver, side): every resting level of the side
ReadOrderbook(bk, s) == bk[s]


\* indices of this account's rows of side s, in page order
MineIdx(bk, s) ==
  LET F[i \in 0..Len(bk[s])] ==
        IF i = 0 THEN <<>>
        ELSE IF bk[s][i].mine THEN Append(F[i - 1], i) ELSE F[i - 1]
  IN  F[Len(bk[s])]

\* the rows of a side without those whose index is in S
KeepIdx(rows, S) ==
  LET F[i \in 0..Len(rows)] ==
        IF i = 0 THEN <<>>
        ELSE IF i \in S THEN F[i - 1] ELSE Append(F[i - 1], rows[i])
  IN  F[Len(rows)]

Range(f) == { f[i] : i \in DOMAIN f }

\* sorted(idxs, key=price, reverse=desc): Python's stable sort
RECURSIVE SortIdx(_, _, _)
SortIdx(rows, idxs, desc) ==
  IF idxs = <<>> THEN <<>>
  ELSE LET n == Len(idxs)
           S == SortIdx(rows, SubSeq(idxs, 1, n - 1), desc)
           i == idxs[n]
           k == Cardinality({ j \in 1..Len(S) :
                     IF desc THEN rows[S[j]].price >= rows[i].price
                             ELSE rows[S[j]].price <= rows[i].price })
       IN  SubSeq(S, 1, k) \o <<i>> \o SubSeq(S, k + 1, Len(S))

\* ------------------------------------------------------------------ state
VARIABLES
  engine,             \* "follow" | "dual" | "legacy": the class that runs
  side,               \* self.side ("both" for the dual engine)
  fixed,              \* cfg.fixed_amount is not None
  pc,                 \* position of the control thread
  ret,                \* caller of full_rebalance: "init" | "sync" | "refill"
  cur,                \* side whose bait / sweep / anchor is in progress
  anchor_price,       \* self._anchor_price
  prev_anchor_price,  \* self._prev_anchor_price
  price_adjustment,   \* self._price_adjustment
  last_rebalance_ts,  \* self._last_rebalance_ts
  last_refill_ts,     \* self._last_refill_ts
  rebalance_lock,     \* self._rebalance_lock
  clock,              \* time.time()
  now,                \* local now of run_mm's loop
  book,               \* the venue's resting orders
  balance,            \* the available USDT and coin the account page shows
  attempt,            \* loop index of _retry_order / _ensure_clean_start
  blocking,           \* local blocking orders of the last scan
  order_qty,          \* quantity of the order being submitted
  faults,             \* failures injected so far
  envs,               \* orders other participants have submitted so far
  trace,              \* history: events of the current handler
  decision,           \* history: the last decision of the sync path
  plan_in,            \* arguments of a call of the ladder planner on its own
  plan_out            \* what that call returned

vars == << engine, side, fixed, pc, ret, cur, anchor_price, prev_anchor_price,
           price_adjustment, last_rebalance_ts, last_refill_ts, rebalance_lock,
           clock, now, book, balance, attempt, blocking, order_qty, faults,
           envs, trace, decision, plan_in, plan_out >>

cfgvars == << engine, side, fixed, balance, plan_in, plan_out >>
anchorvars == << anchor_price, prev_anchor_price, price_adjustment,
                 last_rebalance_ts, last_refill_ts >>
localvars == << blocking, order_qty >>

Ev(ev, f, s, p, q, res) ==
  [ev |-> ev, for |-> f, side |-> s, price |-> p, qty |-> q, res |-> res]
Mark(ev) == Ev(ev, "-", "-", 0, 0, "-")

NoDecision == [prev |-> None, new |-> None, bids |-> 0, asks |-> 0, path |-> "none"]

EmptyBook == [s \in Sides |-> <<>>]
\* orders of this account left over by an earlier run
StaleBooks ==
  { EmptyBook,
    [EmptyBook EXCEPT !["bid"] = << [price |-> 98000, qty |-> 10, mine |-> TRUE] >>],
    [EmptyBook EXCEPT !["ask"] = << [price |-> 102000, qty |-> 10, mine |-> TRUE] >>] }

\* no call of the planner on its own, and no result of one
NoPlan == [anchor |-> None, levels |-> None, step |-> None]
NoResult == [fn |-> "none", arg |-> "-", out |-> <<>>, den |-> 1]

\* FollowMMEngine.__init__ / DualSideMMEngine.__init__, and the entry of
\* run_mm, on one of the books and with available balances from usdts, coins
ConstructedWith(books, usdts, coins) ==
  /\ engine \in {"follow", "dual", "legacy"}
  /\ side \in IF engine = "dual" THEN {"both"} ELSE Sides
  /\ fixed \in IF engine = "dual" THEN {TRUE}
               ELSE IF engine = "follow" /\ side = "bid" THEN BOOLEAN
               ELSE {FALSE}
  /\ pc = CASE engine = "follow" -> "clean"
            [] engine = "dual" -> "validate"
            [] OTHER -> "fr_begin"
  /\ ret = "init"
  /\ cur = IF engine = "dual" THEN "bid" ELSE side
  /\ anchor_price = None
  /\ prev_anchor_price = None
  /\ price_adjustment = None
  /\ last_rebalance_ts = 0
  /\ last_refill_ts = 0
  /\ rebalance_lock = FALSE
  /\ clock = 0
  /\ now = 0
  /\ book \in books
  /\ balance \in { b \in [usdt : usdts, coin : coins] :
                      \* a balance the engine never reads is not varied
                      /\ (side = "bid" => b.coin = Largest(coins))
                      /\ (engine # "dual" /\ (side = "ask" \/ fixed)
                            => b.usdt = Largest(usdts)) }
  /\ attempt = 0
  /\ blocking = <<>>
  /\ order_qty = 0
  /\ faults = 0
  /\ envs = 0
  /\ trace = <<>>
  /\ decision = NoDecision

\* the same with the balances the account page can show
ConstructedOn(books) == ConstructedWith(books, UsdtBalances, CoinBalances)

Constructed == ConstructedOn(StaleBooks)

\* a run of run_mm: the planner is called from the engine only
Init ==
  /\ Constructed
  /\ plan_in = NoPlan
  /\ plan_out = NoResult


Min(a, b) == IF a <= b THEN a ELSE b

\* get_available_buy_usdt(driver) / get_available_sell_qty(driver): the
\* balance a side's orders draw on
Available(s) == IF s = "bid" THEN balance.usdt ELSE balance.coin

\* target_price = _normalize_price(self._anchor_price)
TargetPrice == NormalizePrice(engine, anchor_price, 1)

\* bait_qty = _normalize_qty(self.cfg.min_order_usdt / target_price)
BaitQty == NormalizeQty(MIN_ORDER_USDT, TargetPrice)

\* an exception leaves full_rebalance through its finally clause and is
\* caught nowhere in run_mm: the run ends
Crash ==
  /\ pc' = "crashed"
  /\ rebalance_lock' = FALSE

\* --------------------------------------------------------------- startup
\* a variant of ValidateInitialBalance without the 10 percent buffer
ValidateWithoutBuffer ==
  /\ pc = "validate"
  /\ \E usdt \in {balance.usdt, None}, coin \in {balance.coin, None},
        p \in FeedPrices \cup {None} :
       LET failed == None \in {usdt, coin, p}
           ok == /\ ~failed
                 /\ usdt >= BidFixedAmount
                 /\ coin > 0
                 /\ coin * p >= AskFixedAmount
       IN  /\ failed => faults < MaxFaults
           /\ faults' = IF failed THEN faults + 1 ELSE faults
           /\ pc' = IF ok THEN "clean" ELSE "crashed"
           /\ trace' = << Ev("validate", "-", "-", IF p = None THEN 0 ELSE p, 0,
                             IF ok THEN "ok" ELSE "raise") >>
  /\ UNCHANGED << cfgvars, ret, cur, anchorvars, rebalance_lock, clock, now,
                  book, attempt, localvars, envs, decision >>

\* DualSideMMEngine._validate_initial_balance; None is a read that raises.
\* The history keeps the reference price and whether the check passed.
ValidateInitialBalance ==
  /\ pc = "validate"
  /\ \E usdt \in {balance.usdt, None}, coin \in {balance.coin, None},
        p \in FeedPrices \cup {None} :
       LET failed == None \in {usdt, coin, p}
           ok == /\ ~failed
                 /\ usdt * 10 >= BidFixedAmount * 11
                 /\ coin > 0
                 /\ coin * p * 10 >= AskFixedAmount * 11
       IN  /\ failed => faults < MaxFaults
           /\ faults' = IF failed THEN faults + 1 ELSE faults
           /\ pc' = IF ok THEN "clean" ELSE "crashed"
           /\ trace' = << Ev("validate", "-", "-", IF p = None THEN 0 ELSE p, 0,
                             IF ok THEN "ok" ELSE "raise") >>
  /\ UNCHANGED << cfgvars, ret, cur, anchorvars, rebalance_lock, clock, now,
                  book, attempt, localvars, envs, decision >>

\* _cancel_all_open_orders_side: the rows of side s after the first k rows
\* of this account were cancelled (the loop always cancels rows[0])
CancelAllOpenOrdersSide(bk, s, k) ==
  LET idx == MineIdx(bk, s)
  IN  KeepIdx(bk[s], { idx[j] : j \in 1..k })

\* cancel_all_open_orders: kb / ka rows cancelled on the bid / ask side
CancelAllOpenOrders(bk, kb, ka) ==
  [bid |-> CancelAllOpenOrdersSide(bk, "bid", kb),
   ask |-> CancelAllOpenOrdersSide(bk, "ask", ka)]

\* one attempt of _ensure_clean_start
EnsureCleanStart ==
  /\ pc = "clean"
  /\ LET nb == Len(MineIdx(book, "bid"))
         na == Len(MineIdx(book, "ask"))
     IN  \E kb \in 0..nb, ka \in 0..na :
           LET stuck == (IF kb < nb THEN 1 ELSE 0) + (IF ka < na THEN 1 ELSE 0)
               success == kb + ka
               total == nb + na
           IN  /\ faults + stuck <= MaxFaults
               /\ faults' = faults + stuck
               /\ book' = CancelAllOpenOrders(book, kb, ka)
               /\ IF total = 0 \/ success = total
                    THEN pc' = "verify" /\ attempt' = 0
                    ELSE IF attempt < MaxAttempts - 1
                           THEN pc' = "clean" /\ attempt' = attempt + 1
                           ELSE pc' = "crashed" /\ attempt' = 0
  /\ UNCHANGED << cfgvars, ret, cur, anchorvars, rebalance_lock, clock, now,
                  localvars, envs, trace, decision >>

\* run_mm between cleanup and the first full rebalance
VerifyCleanup ==
  /\ pc = "verify"
  /\ IF ReadOpenOrdersSide(book, "bid") # <<>> \/ ReadOpenOrdersSide(book, "ask") # <<>>
       THEN pc' = "returned"
       ELSE pc' = "fr_begin"
  /\ ret' = "init"
  /\ UNCHANGED << cfgvars, cur, anchorvars, rebalance_lock, clock, now, book,
                  attempt, localvars, faults, envs, trace, decision >>

\* --------------------------------------------------------- full rebalance
\* full_rebalance / full_rebalance_both_sides up to the price fetch
FullRebalanceBegin ==
  /\ pc = "fr_begin"
  /\ \E p \in FeedPrices \cup {None} :
       IF p = None
         THEN /\ faults < MaxFaults
              /\ faults' = faults + 1
              /\ Crash
              /\ trace' = << Mark("lock"), Mark("raise") >>
              /\ UNCHANGED << anchor_price, price_adjustment >>
         ELSE /\ faults' = faults
              /\ rebalance_lock' = TRUE
              /\ anchor_price' = p
              /\ price_adjustment' = 0    \* FLAG_ADJUSTMENT_ENABLE is False
              /\ pc' = "fr_trim"
              /\ trace' = << Mark("lock"), Ev("set_anchor", "-", "-", p, 0, "-") >>
  /\ UNCHANGED << cfgvars, ret, cur, prev_anchor_price, last_rebalance_ts,
                  last_refill_ts, clock, now, book, attempt, localvars, envs,
                  decision >>


\* FLAG_REMOVE_EXCESS_ORDERS_ENABLE: True in src/bot/config.py, False in
\* src/project_root/config.py
RemoveExcessEnabled(e) == e # "legacy" /\ FLAG_REMOVE_EXCESS_ORDERS_ENABLE

\* a variant of RemoveExcessTargets that keeps the rows farthest from the
\* touch: the slice is taken from the wrong end of rows_sorted
RemoveExcessNearest(bk, s) ==
  LET idx == MineIdx(bk, s)
  IN  IF Len(idx) <= MM_LEVELS THEN <<>>
      ELSE LET rows_sorted == SortIdx(bk[s], idx, s = "bid")
               cancel == SubSeq(rows_sorted, 1, Len(rows_sorted) - MM_LEVELS)
           IN  SubSeq(cancel, 1, Min(MM_MAX_CANCEL_OPS_PER_CYCLE, Len(cancel)))

\* FollowMMEngine._remove_excess_orders: the rows (indices into bk[s]) it
\* calls cancel_open_orders_row on, in call order
RemoveExcessTargets(bk, s) ==
  LET idx == MineIdx(bk, s)
  IN  IF Len(idx) <= MM_LEVELS THEN <<>>
      ELSE LET rows_sorted == SortIdx(bk[s], idx, s = "bid")
               cancel == SortIdx(bk[s],
                                 SubSeq(rows_sorted, MM_LEVELS + 1, Len(rows_sorted)),
                                 s = "ask")
           IN  SubSeq(cancel, 1, Min(MM_MAX_CANCEL_OPS_PER_CYCLE, Len(cancel)))

\* DualSideMMEngine._remove_excess_orders_both_sides decides to cancel all
ExcessOnEitherSide(bk) ==
  \/ Len(ReadOpenOrdersSide(bk, "bid")) > MM_LEVELS
  \/ Len(ReadOpenOrdersSide(bk, "ask")) > MM_LEVELS

\* the excess-order trim of full_rebalance / full_rebalance_both_sides
FullRebalanceTrim ==
  /\ pc = "fr_trim"
  /\ CASE engine = "follow" /\ RemoveExcessEnabled(engine) ->
            LET T == Range(RemoveExcessTargets(book, side))
            IN  \E F \in SUBSET T :
                  /\ faults + Cardinality(F) <= MaxFaults
                  /\ faults' = faults + Cardinality(F)
                  /\ book' = [book EXCEPT ![side] = KeepIdx(book[side], T \ F)]
                  /\ trace' = Append(trace, Ev("trim", side, "-", 0, Cardinality(T \ F), "-"))
       [] engine = "dual" /\ RemoveExcessEnabled(engine) /\ ExcessOnEitherSide(book) ->
            LET nb == Len(MineIdx(book, "bid"))
                na == Len(MineIdx(book, "ask"))
            IN  \E kb \in 0..nb, ka \in 0..na :
                  LET stuck == (IF kb < nb THEN 1 ELSE 0) + (IF ka < na THEN 1 ELSE 0)
                  IN  /\ faults + stuck <= MaxFaults
                      /\ faults' = faults + stuck
                      /\ book' = CancelAllOpenOrders(book, kb, ka)
                      /\ trace' = Append(trace, Ev("trim", "both", "-", 0, kb + ka, "-"))
       [] OTHER ->
            /\ UNCHANGED << faults, book >>
            /\ trace' = Append(trace, Ev("trim", "-", "-", 0, 0, "-"))
  /\ pc' = "bait"
  /\ cur' = IF engine = "dual" THEN "bid" ELSE side
  /\ attempt' = 0
  /\ UNCHANGED << cfgvars, ret, anchorvars, rebalance_lock, clock, now,
                  localvars, envs, decision >>

\* what one call of place_limit_order can give: "ok" (returns True, the
\* venue has the order), "false" (returns False, no order), "raise".
\* src/bot/modes/mm/vic_trade.py returns False on every failure and never
\* raises; src/project_root/modes/mm/victoria_trade.py raises on a failure.
PlaceResults(e, bk, s, p, q) ==
  IF q <= 0 \/ p <= 0 THEN {"false"}
  ELSE (IF Len(bk[s]) < MaxBook THEN {"ok"} ELSE {})
         \cup (IF e = "legacy" THEN {"raise"} ELSE {"false"})

\* a failure the venue was not forced into counts against MaxFaults
PlaceCost(bk, s, p, q, o) ==
  IF o # "ok" /\ q > 0 /\ p > 0 /\ Len(bk[s]) < MaxBook THEN 1 ELSE 0

\* the book after place_limit_order(driver, s, p, q) gave result o
Place(bk, s, p, q, o) ==
  IF o = "ok" THEN Accept(bk, s, SubmittedPrice(engine, p), SubmittedQty(q), TRUE) ELSE bk

\* whether the retry loop takes result o of place_limit_order for a success
RetryOrderAccepts(e, o) ==
  IF e = "dual" THEN o = "ok"     \* success = place_limit_order(...); if success
  ELSE o # "raise"                \* the returned value is not looked at

\* one iteration of _retry_order (of the inline retry loops of
\* src/project_root) for an order of the given kind; okNext / failNext are
\* the << pc, cur >> after the loop returned True / False
RetryOrder(kind, s, p, q, okNext, failNext) ==
  \E o \in PlaceResults(engine, book, s, p, q) :
    \* a retry that fails belongs to the failure of the first attempt
    /\ faults + (IF attempt > 0 THEN 0 ELSE PlaceCost(book, s, p, q, o)) <= MaxFaults
    /\ faults' = faults + (IF attempt > 0 THEN 0 ELSE PlaceCost(book, s, p, q, o))
    /\ book' = Place(book, s, p, q, o)
    /\ trace' = Append(trace, Ev(kind, cur, s, p, q, o))
    /\ IF RetryOrderAccepts(engine, o)
         THEN /\ attempt' = 0
              /\ pc' = okNext[1]
              /\ cur' = okNext[2]
              /\ UNCHANGED rebalance_lock
         ELSE IF attempt < MaxRetries - 1
           THEN /\ attempt' = attempt + 1
                /\ UNCHANGED << pc, cur, rebalance_lock >>
           ELSE /\ attempt' = 0
                /\ pc' = failNext[1]
                /\ cur' = failNext[2]
                /\ rebalance_lock' = IF failNext[1] = "crashed" THEN FALSE
                                     ELSE rebalance_lock


\* << pc, cur >> after the anchor order of side c
AfterAnchor(c) ==
  IF engine = "dual" /\ c = "bid" THEN << "anchor_qty", "ask" >>
  ELSE << "ladder", c >>

\* a variant of Bait whose failure skips the rest of the setup in every engine
BaitFailureSkips ==
  /\ pc = "bait"
  /\ RetryOrder("bait", Opp(cur), TargetPrice, BaitQty,
                IF engine = "dual"
                  THEN (IF cur = "bid" THEN << "bait", "ask" >> ELSE << "scan", "bid" >>)
                  ELSE << "scan", cur >>,
                << "ladder", cur >>)
  /\ UNCHANGED << cfgvars, ret, anchorvars, clock, now, localvars, envs, decision >>

\* the bait order: _set_current_price_and_anchor (follow, legacy),
\* _place_bait_orders (dual: BAIT-BID on the ask side, then BAIT-ASK)
Bait ==
  /\ pc = "bait"
  /\ RetryOrder("bait", Opp(cur), TargetPrice, BaitQty,
                IF engine = "dual"
                  THEN (IF cur = "bid" THEN << "bait", "ask" >> ELSE << "scan", "bid" >>)
                  ELSE << "scan", cur >>,
                IF engine = "legacy" THEN << "ladder", cur >>   \* BAIT failed - SKIP
                ELSE << "crashed", cur >>)                      \* raise RuntimeError
  /\ UNCHANGED << cfgvars, ret, anchorvars, clock, now, localvars, envs, decision >>

\* _get_blocking_orders(side, target_price, is_bid) on the rows read_orderbook gave
BlockingOrders(rows, target, is_bid) ==
  SelectSeq(rows, LAMBDA o : IF is_bid THEN o.price < target ELSE o.price > target)

\* the blocking-order scan; read_orderbook gives [] when the page read fails
Scan ==
  /\ pc = "scan"
  /\ \E readOk \in BOOLEAN :
       LET rows == IF readOk THEN ReadOrderbook(book, Opp(cur)) ELSE <<>>
           found == BlockingOrders(rows, TargetPrice, cur = "bid")
       IN  /\ ~readOk => faults < MaxFaults
           /\ faults' = IF readOk THEN faults ELSE faults + 1
           /\ blocking' = found
           /\ trace' = Append(trace, Ev("scan", cur, Opp(cur), TargetPrice, SumQty(found),
                                        IF readOk THEN "ok" ELSE "raise"))
           /\ IF engine = "dual"
                THEN \* total_sweep_qty = sum(o.qty for o in blocking), only if blocking
                     /\ order_qty' = SumQty(found)
                     /\ IF found # <<>>
                          THEN pc' = "sweep" /\ cur' = cur
                          ELSE IF cur = "bid"
                                 THEN pc' = "scan" /\ cur' = "ask"
                                 ELSE pc' = "anchor_qty" /\ cur' = "bid"
                ELSE \* total_sweep_qty = bait_qty + sum(o.qty for o in blocking_orders)
                     /\ order_qty' = BaitQty + SumQty(found)
                     /\ pc' = "balance"
                     /\ cur' = cur
  /\ UNCHANGED << cfgvars, ret, anchorvars, rebalance_lock, clock, now, book,
                  attempt, envs, decision >>

RECURSIVE SumNotional(_)
SumNotional(rows) ==
  IF rows = <<>> THEN 0
  ELSE Head(rows).price * Head(rows).qty + SumNotional(Tail(rows))

\* _check_balance_available(qty, price, is_bid) of src/bot and the inline
\* balance check of src/project_root; bal is the balance read, None when
\* the read raises
CheckBalanceAvailable(e, fx, is_bid, qty, price, blk, bal) ==
  IF is_bid
    THEN IF e = "follow" /\ fx
           THEN ~(qty * price > FixedAmount)
           ELSE /\ bal # None
                /\ LET needed == IF e = "legacy"
                                   THEN price * BaitQty + SumNotional(blk)
                                   ELSE qty * price
                   IN  ~(needed * 10 > bal * MM_BUY_BUDGET_RATIO)
    ELSE /\ bal # None
         /\ ~(qty * 10 > bal * MM_SELL_QTY_RATIO)

\* the balance check before the sweep (single-side engines)
Balance ==
  /\ pc = "balance"
  /\ \E bal \in {Available(cur), None} :
       LET reads == ~(engine = "follow" /\ fixed /\ cur = "bid")
           ok == CheckBalanceAvailable(engine, fixed, cur = "bid", order_qty,
                                       TargetPrice, blocking, bal)
       IN  /\ ~reads => bal = None
           /\ (reads /\ bal = None) => faults < MaxFaults
           /\ faults' = IF reads /\ bal = None THEN faults + 1 ELSE faults
           /\ trace' = Append(trace, Ev("balance", cur, "-", TargetPrice, order_qty,
                                        IF ok THEN "ok" ELSE "short"))
           /\ pc' = IF ok THEN "sweep" ELSE "ladder"
  /\ attempt' = 0
  /\ UNCHANGED << cfgvars, ret, cur, anchorvars, rebalance_lock, clock, now,
                  book, localvars, envs, decision >>

\* a variant of Sweep whose failure leaves the setup in every engine: the
\* anchor order of the side is skipped
SweepFailureSkipsAnchor ==
  /\ pc = "sweep"
  /\ RetryOrder("sweep", cur, TargetPrice, order_qty,
                IF engine = "dual"
                  THEN (IF cur = "bid" THEN << "scan", "ask" >> ELSE << "anchor_qty", "bid" >>)
                  ELSE << "anchor_qty", cur >>,
                << "ladder", cur >>)
  /\ UNCHANGED << cfgvars, ret, anchorvars, clock, now, localvars, envs, decision >>

\* the sweep order on the engine's own side at the target price
Sweep ==
  /\ pc = "sweep"
  /\ RetryOrder("sweep", cur, TargetPrice, order_qty,
                IF engine = "dual"
                  THEN (IF cur = "bid" THEN << "scan", "ask" >> ELSE << "anchor_qty", "bid" >>)
                  ELSE << "anchor_qty", cur >>,
                IF engine = "dual"
                  THEN (IF cur = "bid" THEN << "scan", "ask" >> ELSE << "anchor_qty", "bid" >>)
                  ELSE << "ladder", cur >>)     \* if not self._retry_order(...): return
  /\ UNCHANGED << cfgvars, ret, anchorvars, clock, now, localvars, envs, decision >>

\* the quantity of the anchor order: _place_anchor_order (follow), the
\* inline step 6 (legacy), _place_anchor_orders (dual); None when the
\* balance read raises
AnchorQty(e, fx, is_bid, price, bal) ==
  IF e = "dual"
    THEN IF is_bid
           THEN NormalizeQty(BidFixedAmount * ANCHOR_ORDER_BUDGET_RATIO, 10 * price)
           ELSE NormalizeQty(AskFixedAmount * ANCHOR_ORDER_BUDGET_RATIO, 10 * price)
  ELSE IF is_bid
    THEN IF e = "follow" /\ fx
           THEN NormalizeQty(FixedAmount * ANCHOR_ORDER_BUDGET_RATIO, 10 * price)
           ELSE IF bal = None THEN None
           ELSE NormalizeQty(bal * MM_BUY_BUDGET_RATIO * ANCHOR_ORDER_BUDGET_RATIO,
                             100 * price)
    ELSE IF bal = None THEN None
         ELSE NormalizeQty(bal * MM_SELL_QTY_RATIO * ANCHOR_ORDER_BUDGET_RATIO, 100)

\* sizing of the anchor order; a balance read that raises is logged and
\* the anchor order is not placed
AnchorSize ==
  /\ pc = "anchor_qty"
  /\ \E bal \in {Available(cur), None} :
       LET reads == ~(engine = "dual" \/ (engine = "follow" /\ fixed /\ cur = "bid"))
           qty == AnchorQty(engine, fixed, cur = "bid", TargetPrice, bal)
       IN  /\ ~reads => bal = None
           /\ (reads /\ bal = None) => faults < MaxFaults
           /\ faults' = IF reads /\ bal = None THEN faults + 1 ELSE faults
           /\ IF qty # None /\ qty > 0
                THEN /\ order_qty' = qty
                     /\ pc' = "anchor"
                     /\ cur' = cur
                ELSE /\ order_qty' = 0
                     /\ pc' = AfterAnchor(cur)[1]
                     /\ cur' = AfterAnchor(cur)[2]
  /\ attempt' = 0
  /\ UNCHANGED << cfgvars, ret, anchorvars, rebalance_lock, clock, now, book,
                  blocking, envs, trace, decision >>

\* the anchor order at the target price; its result is not looked at
Anchor ==
  /\ pc = "anchor"
  /\ RetryOrder("anchor", cur, TargetPrice, order_qty, AfterAnchor(cur), AfterAnchor(cur))
  /\ UNCHANGED << cfgvars, ret, anchorvars, clock, now, localvars, envs, decision >>


\* ----------------------------------------------------------------- ladder
\* _get_weights(n, mode)[i - 1] = WeightNum / WeightDen; src/project_root
\* always takes _weights_pyramid
\* a variant of WeightNumOf whose pyramid is upside down: raw = n..1
WeightNumReversed(mode, n, i) == IF mode = "EQUAL" THEN 1 ELSE n + 1 - i

\* _get_weights(n, mode)[i - 1] as the fraction WeightNumOf / WeightDenOf:
\* 1.0 / n for "EQUAL", else raw[i - 1] / sum(raw) with raw = 1..n
WeightNumOf(mode, n, i) == IF mode = "EQUAL" THEN 1 ELSE i
WeightDenOf(mode, n) == IF mode = "EQUAL" THEN n ELSE (n * (n + 1)) \div 2

\* the distribution mode engine e sizes its ladder with
DistributionMode(e) == IF e = "legacy" THEN "PYRAMID" ELSE MM_DISTRIBUTION_MODE

WeightNum(e, n, i) == WeightNumOf(DistributionMode(e), n, i)
WeightDen(e, n) == WeightDenOf(DistributionMode(e), n)

\* (1 - s) ** k and (1 + s) ** k as a fraction over 100 ** k, s = step_percent / 100
\* a variant of StepNumOf with the directions of bid and ask exchanged
StepNumSwapped(s, step, k) == Pow(IF s = "ask" THEN 100 - step ELSE 100 + step, k)

StepNumOf(s, step, k) == Pow(IF s = "bid" THEN 100 - step ELSE 100 + step, k)
StepNum(s, k) == StepNumOf(s, MM_STEP_PERCENT, k)
StepDen(k) == Pow(100, k)

RECURSIVE GCD(_, _)
GCD(a, b) == IF b = 0 THEN a ELSE GCD(b, a % b)

\* pk = p_anchor * ((1 -/+ s) ** k), normalized: the fraction is reduced
\* before it is multiplied out
LadderPrice(e, s, anchor, step, k) ==
  LET g == GCD(anchor, StepDen(k))
  IN  NormalizePrice(e, (anchor \div g) * StepNumOf(s, step, k), StepDen(k) \div g)

\* a variant of CalculateLevels whose loop starts at k = 0
CalculateLevelsFromZero(e, s, anchor, levels, step) ==
  [k \in 1..levels |-> LadderPrice(e, s, anchor, step, k - 1)]

\* _calculate_orderbook_levels / _calculate_ladder_prices for a side, an
\* anchor price, cfg.levels and step_percent
CalculateLevels(e, s, anchor, levels, step) ==
  [k \in 1..levels |-> LadderPrice(e, s, anchor, step, k)]

\* _calculate_orderbook_levels / _calculate_ladder_prices: levels 1..MM_LEVELS
\* away from the anchor price
CalculateLadderPrices(e, s, anchor) ==
  CalculateLevels(e, s, anchor, MM_LEVELS, MM_STEP_PERCENT)

\* a variant of Outer that takes the resting price nearest to touch
OuterNearest(rows, s) ==
  CHOOSE x \in { rows[i].price : i \in 1..Len(rows) } :
    \A j \in 1..Len(rows) :
      IF s = "bid" THEN x >= rows[j].price ELSE x <= rows[j].price

\* the outermost resting price of a side: min of the bids, max of the asks
Outer(rows, s) ==
  CHOOSE x \in { rows[i].price : i \in 1..Len(rows) } :
    \A j \in 1..Len(rows) :
      IF s = "bid" THEN x <= rows[j].price ELSE x >= rows[j].price

\* new_prices of a top-up for a step_percent: outer * ((1 -/+ step) ** i),
\* normalized, for i in range(1, need + 1)
ExtendLevels(e, s, rows, need, step) ==
  [i \in 1..need |-> LadderPrice(e, s, Outer(rows, s), step, i)]

\* new_prices of a top-up: need levels beyond the outermost resting price
ExtendPrices(e, s, rows, need) == ExtendLevels(e, s, rows, need, MM_STEP_PERCENT)

\* the prices _refill_ladder_to_target / _refill_ladder_side compute from
\* the rows read for a side, the anchor price, cfg.levels and step_percent
RefillLevels(e, s, rows, anchor, levels, step) ==
  LET need == levels - Len(rows)
  IN  IF need <= 0 THEN <<>>
      ELSE IF rows # <<>> THEN ExtendLevels(e, s, rows, need, step)
      ELSE SubSeq(CalculateLevels(e, s, anchor, levels, step), 1, need)

\* whether sizing the ladder of side s reads the balance page
LadderReadsBalance(e, fx, s) ==
  /\ e # "dual"
  /\ ~(e = "follow" /\ fx /\ s = "bid")

\* a variant of LadderBudget that hands the ladder the whole side budget
LadderBudgetWhole(e, fx, s, anchor, bal) ==
  IF e = "dual"
    THEN IF s = "bid"
           THEN << BidFixedAmount, 1 >>
           ELSE << AskFixedAmount, anchor >>
  ELSE IF s = "bid"
    THEN IF e = "follow" /\ fx
           THEN << FixedAmount, 1 >>
           ELSE << bal * MM_BUY_BUDGET_RATIO, 10 >>
    ELSE << bal * MM_SELL_QTY_RATIO, 10 >>

\* the budget of a ladder as a fraction << num, den >>: USDT for the bid
\* side, coin for the ask side
LadderBudget(e, fx, s, anchor, bal) ==
  IF e = "dual"
    THEN IF s = "bid"
           THEN << BidFixedAmount * (10 - ANCHOR_ORDER_BUDGET_RATIO), 10 >>
           ELSE << AskFixedAmount * (10 - ANCHOR_ORDER_BUDGET_RATIO), 10 * anchor >>
  ELSE IF s = "bid"
    THEN IF e = "follow" /\ fx
           THEN << FixedAmount * (10 - ANCHOR_ORDER_BUDGET_RATIO), 10 >>
           ELSE << bal * MM_BUY_BUDGET_RATIO * (10 - ANCHOR_ORDER_BUDGET_RATIO), 100 >>
    ELSE << bal * MM_SELL_QTY_RATIO * (10 - ANCHOR_ORDER_BUDGET_RATIO), 100 >>

\* _place_orderbook_orders / _place_ladder_orders_side: the orders it
\* submits for the given prices (a level whose quantity is not positive is
\* skipped; nothing is submitted when the balance read raised)
LadderOrders(e, fx, s, prices, anchor, bal) ==
  IF LadderReadsBalance(e, fx, s) /\ bal = None THEN <<>>
  ELSE LET n == Len(prices)
           b == LadderBudget(e, fx, s, anchor, bal)
           all == [i \in 1..n |->
                    [side |-> s, price |-> prices[i],
                     qty |-> IF s = "bid"
                               THEN NormalizeQty(b[1] * WeightNum(e, n, i),
                                                 b[2] * WeightDen(e, n) * prices[i])
                               ELSE NormalizeQty(b[1] * WeightNum(e, n, i),
                                                 b[2] * WeightDen(e, n))]]
       IN  SelectSeq(all, LAMBDA o : o.qty > 0)

\* the ladder loop: each order is submitted once and the result of
\* place_limit_order is not looked at
RECURSIVE PlaceAll(_, _, _)
PlaceAll(bk, orders, outs) ==
  IF orders = <<>>
    THEN [book |-> bk, evs |-> <<>>, cost |-> 0, valid |-> TRUE]
    ELSE LET o == Head(orders)
             r == Head(outs)
             rest == PlaceAll(Place(bk, o.side, o.price, o.qty, r), Tail(orders), Tail(outs))
         IN  [book |-> rest.book,
              evs |-> << Ev("ladder", o.side, o.side, o.price, o.qty, r) >> \o rest.evs,
              cost |-> PlaceCost(bk, o.side, o.price, o.qty, r) + rest.cost,
              valid |-> r \in PlaceResults(engine, bk, o.side, o.price, o.qty) /\ rest.valid]

\* what _refill_ladder_to_target (src/bot) and _fill_ladder_to_target
\* (src/project_root) do given the rows read: "trim", "all" levels from the
\* anchor, "none", "extend" beyond the outermost row, or "crash":
\* _calculate_remaining_budget reads row.qty, which OrderRow does not have
LadderPlan(e, fx, s, rows) ==
  LET n == Len(rows)
      need == MM_LEVELS - n
  IN  IF e = "follow"
        THEN IF n > MM_LEVELS /\ RemoveExcessEnabled(e) THEN "trim"
             ELSE IF n = 0 THEN "all"
             ELSE IF need <= 0 THEN "none"
             ELSE IF s = "bid" /\ fx THEN "crash"
             ELSE "extend"
        ELSE IF need <= 0 THEN "none"
             ELSE IF n = 0 THEN "all"
             ELSE "extend"

\* the prices a single-side ladder fill submits orders at
LadderPrices(e, fx, s, rows, anchor) ==
  LET plan == LadderPlan(e, fx, s, rows)
  IN  IF plan = "all" THEN CalculateLadderPrices(e, s, anchor)
      ELSE IF plan = "extend" THEN ExtendPrices(e, s, rows, MM_LEVELS - Len(rows))
      ELSE <<>>


\* the results of n calls of place_limit_order
Outcomes(n) == [1..n -> {"ok", IF engine = "legacy" THEN "raise" ELSE "false"}]

\* _remove_excess_orders of the follow engine: the rows left on the side
\* when the cancel calls of the rows in F had no effect
RemoveExcessOrders(bk, s, F) ==
  [bk EXCEPT ![s] = KeepIdx(bk[s], Range(RemoveExcessTargets(bk, s)) \ F)]

\* _refill_ladder_to_target / _fill_ladder_to_target of a single-side
\* engine; okPc is the position after it returned
FillLadderSingle(okPc) ==
  LET rows == ReadOpenOrdersSide(book, side)
      plan == LadderPlan(engine, fixed, side, rows)
      prices == LadderPrices(engine, fixed, side, rows, anchor_price)
  IN  \/ \* read_open_orders_side raises: nothing catches it
         /\ faults < MaxFaults
         /\ faults' = faults + 1
         /\ trace' = Append(trace, Mark("raise"))
         /\ Crash
         /\ UNCHANGED book
      \/ /\ plan = "crash"
         /\ trace' = Append(trace, Mark("raise"))
         /\ Crash
         /\ UNCHANGED << book, faults >>
      \/ /\ plan = "trim"
         /\ \E F \in SUBSET Range(RemoveExcessTargets(book, side)) :
              /\ faults + Cardinality(F) <= MaxFaults
              /\ faults' = faults + Cardinality(F)
              /\ book' = RemoveExcessOrders(book, side, F)
              /\ trace' = Append(trace,
                     Ev("ladder_trim", side, "-", 0,
                        Cardinality(Range(RemoveExcessTargets(book, side)) \ F), "-"))
         /\ pc' = okPc
         /\ UNCHANGED rebalance_lock
      \/ /\ plan \in {"all", "extend", "none"}
         /\ \E bal \in {Available(side), None} :
              LET reads == prices # <<>> /\ LadderReadsBalance(engine, fixed, side)
                  orders == LadderOrders(engine, fixed, side, prices, anchor_price, bal)
                  miss == IF reads /\ bal = None THEN 1 ELSE 0
              IN  /\ ~reads => bal = None
                  /\ \E outs \in Outcomes(Len(orders)) :
                       LET r == PlaceAll(book, orders, outs)
                       IN  /\ r.valid
                           /\ faults + miss + r.cost <= MaxFaults
                           /\ faults' = faults + miss + r.cost
                           /\ book' = r.book
                           /\ trace' = trace \o r.evs
         /\ pc' = okPc
         /\ UNCHANGED rebalance_lock

\* _place_ladder_orders_both_sides of the dual engine: the bid ladder,
\* then the ask ladder, both from the anchor price
FillLadderBoth(okPc) ==
  LET orders ==
        LadderOrders(engine, fixed, "bid",
                     CalculateLadderPrices(engine, "bid", anchor_price), anchor_price, None)
        \o LadderOrders(engine, fixed, "ask",
                        CalculateLadderPrices(engine, "ask", anchor_price), anchor_price, None)
  IN  /\ \E outs \in Outcomes(Len(orders)) :
           LET r == PlaceAll(book, orders, outs)
           IN  /\ r.valid
               /\ faults + r.cost <= MaxFaults
               /\ faults' = faults + r.cost
               /\ book' = r.book
               /\ trace' = trace \o r.evs
      /\ pc' = okPc
      /\ UNCHANGED rebalance_lock

\* a variant of Ladder that updates the anchor state while it fills
LadderWithStateUpdate ==
  /\ pc = "ladder"
  /\ IF engine = "dual" THEN FillLadderBoth("fr_end") ELSE FillLadderSingle("fr_end")
  /\ prev_anchor_price' = anchor_price
  /\ last_rebalance_ts' = clock
  /\ UNCHANGED << cfgvars, ret, cur, anchor_price, price_adjustment, last_refill_ts,
                  clock, now, attempt, localvars, envs, decision >>

\* the ladder fill of a full rebalance
Ladder ==
  /\ pc = "ladder"
  /\ IF engine = "dual" THEN FillLadderBoth("fr_end") ELSE FillLadderSingle("fr_end")
  /\ UNCHANGED << cfgvars, ret, cur, anchorvars, clock, now, attempt, localvars,
                  envs, decision >>

\* a variant of FullRebalanceEnd that leaves _prev_anchor_price alone
FullRebalanceEndKeepsPrevAnchor ==
  /\ pc = "fr_end"
  /\ last_rebalance_ts' = clock
  /\ rebalance_lock' = FALSE
  /\ trace' = trace \o << Ev("state", "-", "-", anchor_price, 0, "-"), Mark("unlock") >>
  /\ pc' = CASE ret = "init" -> "loop"
             [] ret = "sync" -> "refill_check"
             [] OTHER -> "sleep"
  /\ UNCHANGED << cfgvars, ret, cur, anchor_price, prev_anchor_price, price_adjustment,
                  last_refill_ts, clock, now, book, attempt, localvars, faults, envs,
                  decision >>

\* a variant of FullRebalanceEnd without the finally clause: the lock stays
FullRebalanceEndKeepsLock ==
  /\ pc = "fr_end"
  /\ last_rebalance_ts' = clock
  /\ prev_anchor_price' = anchor_price
  /\ trace' = trace \o << Ev("state", "-", "-", anchor_price, 0, "-") >>
  /\ pc' = CASE ret = "init" -> "loop"
             [] ret = "sync" -> "refill_check"
             [] OTHER -> "sleep"
  /\ UNCHANGED << cfgvars, ret, cur, anchor_price, price_adjustment, last_refill_ts,
                  rebalance_lock, clock, now, book, attempt, localvars, faults, envs,
                  decision >>

\* the end of full_rebalance / full_rebalance_both_sides: timing and
\* previous anchor are set, the finally clause clears the lock, and
\* control goes back to the caller
FullRebalanceEnd ==
  /\ pc = "fr_end"
  /\ last_rebalance_ts' = clock
  /\ prev_anchor_price' = anchor_price
  /\ rebalance_lock' = FALSE
  /\ trace' = trace \o << Ev("state", "-", "-", anchor_price, 0, "-"), Mark("unlock") >>
  /\ pc' = CASE ret = "init" -> "loop"
             [] ret = "sync" -> "refill_check"
             [] OTHER -> "sleep"
  /\ UNCHANGED << cfgvars, ret, cur, anchor_price, price_adjustment, last_refill_ts,
                  clock, now, book, attempt, localvars, faults, envs, decision >>


\* ------------------------------------------------------------ control loop
\* the top of the while loop of run_mm: now = _now() and the rebalance check
Tick ==
  /\ pc = "loop"
  /\ now' = clock
  /\ pc' = IF clock - last_rebalance_ts >= MM_REBALANCE_INTERVAL_SEC
             THEN "sync" ELSE "refill_check"
  /\ trace' = <<>>
  /\ UNCHANGED << cfgvars, ret, cur, anchorvars, rebalance_lock, clock, book,
                  attempt, localvars, faults, envs, decision >>

\* variants of the decision: the dual engine without the 0.3 percent
\* threshold, the single-side engines with the directions of bid and ask
\* exchanged, and the single-side engines rebalancing fully on an empty side
SyncDecisionNoThreshold(e, s, prev, new, nbid, nask) ==
  IF e = "dual"
    THEN IF nbid = 0 \/ nask = 0 THEN "full" ELSE "refill_only"
  ELSE IF s = "bid"
    THEN IF new - prev > 0 THEN "full"
         ELSE IF nbid = 0 \/ new - prev < 0 THEN "refill_only"
         ELSE "none"
    ELSE IF new - prev < 0 THEN "full"
         ELSE IF nask = 0 \/ new - prev > 0 THEN "refill_only"
         ELSE "none"

SyncDecisionSwapped(e, s, prev, new, nbid, nask) ==
  IF e = "dual"
    THEN IF nbid = 0 \/ nask = 0 THEN "full"
         ELSE IF Abs(new - prev) * 1000 > 3 * prev THEN "full"
         ELSE "refill_only"
  ELSE IF s = "ask"
    THEN IF new - prev > 0 THEN "full"
         ELSE IF nask = 0 \/ new - prev < 0 THEN "refill_only"
         ELSE "none"
    ELSE IF new - prev < 0 THEN "full"
         ELSE IF nbid = 0 \/ new - prev > 0 THEN "refill_only"
         ELSE "none"

SyncDecisionEmptyFull(e, s, prev, new, nbid, nask) ==
  IF e = "dual"
    THEN IF nbid = 0 \/ nask = 0 THEN "full"
         ELSE IF Abs(new - prev) * 1000 > 3 * prev THEN "full"
         ELSE "refill_only"
  ELSE IF s = "bid"
    THEN IF nbid = 0 \/ new - prev > 0 THEN "full"
         ELSE IF new - prev < 0 THEN "refill_only"
         ELSE "none"
    ELSE IF nask = 0 \/ new - prev < 0 THEN "full"
         ELSE IF new - prev > 0 THEN "refill_only"
         ELSE "none"

\* the decision of _sync_with_binance (single side s) and of
\* _sync_with_binance_both_sides (dual) from the previous anchor price, the
\* price fetched, and the numbers of own resting bids and asks
SyncDecision(e, s, prev, new, nbid, nask) ==
  IF e = "dual"
    THEN IF nbid = 0 \/ nask = 0 THEN "full"
         \* abs(price_change_percent) > 0.3
         ELSE IF Abs(new - prev) * 1000 > 3 * prev THEN "full"
         ELSE "refill_only"
  ELSE IF s = "bid"
    THEN IF new - prev > 0 THEN "full"
         ELSE IF nbid = 0 \/ new - prev < 0 THEN "refill_only"
         ELSE "none"
    ELSE IF new - prev < 0 THEN "full"
         ELSE IF nask = 0 \/ new - prev > 0 THEN "refill_only"
         ELSE "none"

\* the orders _refill_orderbook_only / _fill_orderbook_only /
\* _refill_orderbook_only_both_sides submit: every level from the new anchor
RefillOnlyOrders(e, fx, s, new, bal) ==
  IF e = "dual"
    THEN LadderOrders(e, fx, "bid", CalculateLadderPrices(e, "bid", new), new, None)
         \o LadderOrders(e, fx, "ask", CalculateLadderPrices(e, "ask", new), new, None)
    ELSE LadderOrders(e, fx, s, CalculateLadderPrices(e, s, new), new, bal)

\* a variant of RefillOnlyState that leaves _prev_anchor_price alone
RefillOnlyKeepsPrevAnchor(binance_price, t) == << binance_price, prev_anchor_price, t >>

\* _refill_orderbook_only / _refill_orderbook_only_both_sides: what they
\* assign to << _anchor_price, _prev_anchor_price, _last_rebalance_ts >>
RefillOnlyState(binance_price, t) == << binance_price, binance_price, t >>

\* _sync_with_binance / _sync_with_binance_both_sides; a full rebalance it
\* decides on continues at FullRebalanceBegin
Sync ==
  /\ pc = "sync"
  /\ \E p \in FeedPrices \cup {None}, readOk \in BOOLEAN :
       LET nbid == Len(ReadOpenOrdersSide(book, "bid"))
           nask == Len(ReadOpenOrdersSide(book, "ask"))
           path == IF p = None THEN "error"
                   ELSE IF prev_anchor_price = None THEN "full"
                   ELSE IF ~readOk THEN "error"
                   ELSE SyncDecision(engine, side, prev_anchor_price, p, nbid, nask)
           miss == IF p = None \/ ~readOk THEN 1 ELSE 0
       IN  /\ p = None => readOk
           /\ (prev_anchor_price = None /\ p # None) => readOk
           /\ decision' = [prev |-> prev_anchor_price, new |-> p, bids |-> nbid,
                           asks |-> nask, path |-> path]
           /\ IF path = "refill_only"
                THEN \E bal \in {Available(side), None} :
                       LET reads == LadderReadsBalance(engine, fixed, side)
                           orders == RefillOnlyOrders(engine, fixed, side, p, bal)
                           lost == IF reads /\ bal = None THEN 1 ELSE 0
                       IN  /\ ~reads => bal = None
                           /\ \E outs \in Outcomes(Len(orders)) :
                                LET r == PlaceAll(book, orders, outs)
                                IN  /\ r.valid
                                    /\ faults + lost + r.cost <= MaxFaults
                                    /\ faults' = faults + lost + r.cost
                                    /\ book' = r.book
                                    /\ trace' = << Ev("refill_only", "-", "-", p, 0, "-") >>
                                                  \o r.evs
                           /\ anchor_price' = RefillOnlyState(p, clock)[1]
                           /\ prev_anchor_price' = RefillOnlyState(p, clock)[2]
                           /\ last_rebalance_ts' = RefillOnlyState(p, clock)[3]
                           /\ pc' = "refill_check"
                           /\ UNCHANGED ret
                ELSE /\ faults + miss <= MaxFaults
                     /\ faults' = faults + miss
                     /\ trace' = << Ev("sync", "-", "-", IF p = None THEN 0 ELSE p, 0, path) >>
                     /\ pc' = IF path = "full" THEN "fr_begin" ELSE "refill_check"
                     /\ ret' = IF path = "full" THEN "sync" ELSE ret
                     /\ UNCHANGED << anchor_price, prev_anchor_price, last_rebalance_ts, book >>
  /\ UNCHANGED << cfgvars, cur, price_adjustment, last_refill_ts, rebalance_lock,
                  clock, now, attempt, localvars, envs >>

\* the refill check of the while loop of run_mm, and the entry of
\* _refill_missing_orders / _topup_missing_orders / _refill_both_sides_if_needed
RefillCheck ==
  /\ pc = "refill_check"
  /\ IF (~rebalance_lock) /\ now - last_refill_ts >= MM_REFILL_INTERVAL_SEC
       THEN IF anchor_price = None \/ (engine # "dual" /\ price_adjustment = None)
              THEN pc' = "fr_begin" /\ ret' = "refill" /\ trace' = trace
              ELSE pc' = "refill" /\ ret' = ret /\ trace' = Append(trace, Mark("refill"))
       ELSE pc' = "sleep" /\ ret' = ret /\ trace' = trace
  /\ UNCHANGED << cfgvars, cur, anchorvars, rebalance_lock, clock, now, book,
                  attempt, localvars, faults, envs, decision >>


\* new_prices of _refill_ladder_side(side, existing_orders)
RefillLadderSidePrices(e, s, rows, anchor) ==
  RefillLevels(e, s, rows, anchor, MM_LEVELS, MM_STEP_PERCENT)

\* _refill_both_sides_if_needed of the dual engine once the anchor is set
RefillBothSidesIfNeeded ==
  LET bid_orders == ReadOpenOrdersSide(book, "bid")
      ask_orders == ReadOpenOrdersSide(book, "ask")
      bid_need == MM_LEVELS - Len(bid_orders)
      ask_need == MM_LEVELS - Len(ask_orders)
      orders ==
        LadderOrders(engine, fixed, "bid",
                     RefillLadderSidePrices(engine, "bid", bid_orders, anchor_price),
                     anchor_price, None)
        \o LadderOrders(engine, fixed, "ask",
                        RefillLadderSidePrices(engine, "ask", ask_orders, anchor_price),
                        anchor_price, None)
  IN  \/ \* read_open_orders_side raises: nothing catches it
         /\ faults < MaxFaults
         /\ faults' = faults + 1
         /\ trace' = Append(trace, Mark("raise"))
         /\ Crash
         /\ UNCHANGED << book, last_refill_ts >>
      \/ /\ \E outs \in Outcomes(Len(orders)) :
              LET r == PlaceAll(book, orders, outs)
              IN  /\ r.valid
                  /\ faults + r.cost <= MaxFaults
                  /\ faults' = faults + r.cost
                  /\ book' = r.book
                  /\ trace' = trace \o r.evs
         /\ last_refill_ts' = IF bid_need > 0 \/ ask_need > 0 THEN clock ELSE last_refill_ts
         /\ pc' = "sleep"
         /\ UNCHANGED rebalance_lock

\* _refill_missing_orders / _topup_missing_orders of a single-side engine
\* once the anchor is set
RefillMissingOrders ==
  /\ FillLadderSingle("sleep")
  /\ last_refill_ts' = IF pc' = "sleep" THEN clock ELSE last_refill_ts

\* a variant of Refill that counts the top-up as a rebalance
RefillResetsRebalanceTs ==
  /\ pc = "refill"
  /\ IF engine = "dual" THEN RefillBothSidesIfNeeded ELSE RefillMissingOrders
  /\ last_rebalance_ts' = clock
  /\ UNCHANGED << cfgvars, ret, cur, anchor_price, prev_anchor_price, price_adjustment,
                  clock, now, attempt, localvars, envs, decision >>

\* the refill handler of the tick
Refill ==
  /\ pc = "refill"
  /\ IF engine = "dual" THEN RefillBothSidesIfNeeded ELSE RefillMissingOrders
  /\ UNCHANGED << cfgvars, ret, cur, anchor_price, prev_anchor_price, price_adjustment,
                  last_rebalance_ts, clock, now, attempt, localvars, envs, decision >>

\* time.sleep(0.5) at the bottom of the while loop
Sleep ==
  /\ pc = "sleep"
  /\ clock < MaxClock
  /\ clock' = clock + 1
  /\ pc' = "loop"
  /\ UNCHANGED << cfgvars, ret, cur, anchorvars, rebalance_lock, now, book,
                  attempt, localvars, faults, envs, trace, decision >>

\* whether the run is over: an exception left run_mm, or run_mm returned
Stopped == pc \in {"crashed", "returned"}

\* another participant's limit order reaches the venue: while the engine
\* waits for its bait to show, or while it sleeps between two ticks
OtherParticipant ==
  /\ pc \in {"scan", "sleep"}
  /\ envs < MaxEnv
  /\ \E o \in OtherOrders :
       /\ Len(book[o.side]) < MaxBook
       /\ book' = Accept(book, o.side, o.price, o.qty, FALSE)
  /\ envs' = envs + 1
  /\ UNCHANGED << cfgvars, pc, ret, cur, anchorvars, rebalance_lock, clock, now,
                  attempt, localvars, faults, trace, decision >>

Next ==
  \/ ValidateInitialBalance
  \/ EnsureCleanStart
  \/ VerifyCleanup
  \/ FullRebalanceBegin
  \/ FullRebalanceTrim
  \/ Bait
  \/ Scan
  \/ Balance
  \/ Sweep
  \/ AnchorSize
  \/ Anchor
  \/ Ladder
  \/ FullRebalanceEnd
  \/ Tick
  \/ Sync
  \/ RefillCheck
  \/ Refill
  \/ Sleep
  \/ OtherParticipant

Spec == Init /\ [][Next]_vars

\* ------------------------------------------------- the startup on its own
\* available balances around the thresholds of _validate_initial_balance
\* (1.1 * bid_fixed_amount, and 1.1 * ask_fixed_amount at the feed's prices)
GateUsdt == {0, BidFixedAmount, (BidFixedAmount * 11) \div 10 - 1,
             (BidFixedAmount * 11) \div 10, Largest(UsdtBalances)}
GateCoins == {0, 40, 44, 45, Largest(CoinBalances)}

\* the dual engine is constructed and run_mm is entered
GateInit ==
  /\ ConstructedWith(StaleBooks, GateUsdt, GateCoins)
  /\ engine = "dual"
  /\ plan_in = NoPlan
  /\ plan_out = NoResult

\* run_mm up to the price fetch of the first full rebalance
GateNext ==
  \/ ValidateInitialBalance
  \/ EnsureCleanStart
  \/ VerifyCleanup
  \/ FullRebalanceBegin

GateSpec == GateInit /\ [][GateNext]_vars

\* -------------------------------------------------------------- the runner
\* run_follow_mm_bid / run_follow_mm_ask / run_dual_side_mm around run_mm
\* positions at which the engine run is over: run_mm returned, an
\* exception left it, or KeyboardInterrupt was raised in it
RunEnded == pc \in {"returned", "crashed", "interrupted"}

\* a variant of RunnerExit without the except clause around driver.quit()
RunnerExitUncaught(res) == IF res = "raised" THEN "quit_raised" ELSE "shutdown"

\* where the runner is after driver.quit() returned or raised:
\* except (WebDriverException, Exception) swallows the failure
RunnerExit(res) == "shutdown"

\* KeyboardInterrupt is raised while run_mm runs; a full rebalance in
\* progress releases its lock in its finally clause
KeyboardInterrupt ==
  /\ ~RunEnded
  /\ pc \notin {"shutdown", "quit_raised"}
  /\ pc' = "interrupted"
  /\ rebalance_lock' = FALSE
  /\ UNCHANGED << cfgvars, ret, cur, anchorvars, clock, now, book, attempt,
                  localvars, faults, envs, trace, decision >>

\* the finally clause of the runner: driver.quit(), which may raise; the
\* history keeps how the run ended
DriverQuit ==
  /\ RunEnded
  /\ \E res \in {"ok", "raised"} :
       /\ res = "raised" => faults < MaxFaults
       /\ faults' = IF res = "raised" THEN faults + 1 ELSE faults
       /\ trace' = Append(trace, Ev("quit", pc, "-", 0, 0, res))
       /\ pc' = RunnerExit(res)
  /\ UNCHANGED << cfgvars, ret, cur, anchorvars, rebalance_lock, clock, now, book,
                  attempt, localvars, envs, decision >>

RunnerNext ==
  \/ Next
  \/ KeyboardInterrupt
  \/ DriverQuit

\* the finally clause runs once the try block is left
RunnerSpec == Init /\ [][RunnerNext]_vars /\ WF_vars(DriverQuit)

\* ------------------------------------------------------- the planner alone
\* anchor prices, in price units, and step_percent values (in percent) the
\* planner is called with
PlanAnchors == {1, 7, 10, 30, 100, 1000000}
PlanSteps == {1, 5, 10}

\* own orders resting when the planner is called: none, the leftovers of an
\* earlier run, two per side (the outermost read first), and one per side
\* priced at a few units of the price precision
PlanBooks ==
  StaleBooks \cup
  { [bid |-> << [price |-> 99000, qty |-> 10, mine |-> TRUE],
               [price |-> 100000, qty |-> 10, mine |-> TRUE] >>,
     ask |-> << [price |-> 102000, qty |-> 10, mine |-> TRUE],
               [price |-> 101000, qty |-> 10, mine |-> TRUE] >>],
    [bid |-> << [price |-> 30, qty |-> 10, mine |-> TRUE] >>,
     ask |-> << [price |-> 30, qty |-> 10, mine |-> TRUE] >>] }

\* an engine is constructed and its planner is called with some arguments
PlannerInit ==
  /\ ConstructedOn(PlanBooks)
  /\ plan_in \in [anchor : PlanAnchors, levels : 1..MaxPlanLevels, step : PlanSteps]
  /\ plan_out = NoResult

\* a call of _calculate_orderbook_levels / _calculate_ladder_prices(side)
PlanLadder ==
  /\ plan_out = NoResult
  /\ \E s \in Sides :
       plan_out' = [fn |-> "levels", arg |-> s,
                    out |-> CalculateLevels(engine, s, plan_in.anchor, plan_in.levels,
                                            plan_in.step),
                    den |-> 1]
  /\ UNCHANGED << engine, side, fixed, balance, plan_in, pc, ret, cur, anchorvars,
                  rebalance_lock, clock, now, book, attempt, localvars, faults, envs,
                  trace, decision >>

\* a call of _get_weights(n, mode)
PlanWeights ==
  /\ plan_out = NoResult
  /\ \E mode \in {"EQUAL", "PYRAMID"} :
       plan_out' = [fn |-> "weights", arg |-> mode,
                    out |-> [i \in 1..plan_in.levels |->
                               WeightNumOf(mode, plan_in.levels, i)],
                    den |-> WeightDenOf(mode, plan_in.levels)]
  /\ UNCHANGED << engine, side, fixed, balance, plan_in, pc, ret, cur, anchorvars,
                  rebalance_lock, clock, now, book, attempt, localvars, faults, envs,
                  trace, decision >>

\* the price computation of _refill_ladder_to_target / _refill_ladder_side
\* on the rows read for a side
PlanRefill ==
  /\ plan_out = NoResult
  /\ \E s \in Sides :
       plan_out' = [fn |-> "refill", arg |-> s,
                    out |-> RefillLevels(engine, s, ReadOpenOrdersSide(book, s),
                                         plan_in.anchor, plan_in.levels, plan_in.step),
                    den |-> 1]
  /\ UNCHANGED << engine, side, fixed, balance, plan_in, pc, ret, cur, anchorvars,
                  rebalance_lock, clock, now, book, attempt, localvars, faults, envs,
                  trace, decision >>

PlannerNext ==
  \/ PlanLadder
  \/ PlanWeights
  \/ PlanRefill

PlannerSpec == PlannerInit /\ [][PlannerNext]_vars

\* ------------------------------------------------ cancel_all_open_orders
\* max_iterations of _cancel_all_open_orders_side
MaxIterations == 50

\* calls of cancel_all_open_orders in a row
MaxCalls == 2

\* how many reads, and how many cancel clicks, of one call can fail
FaultCounts == {0, 1, MaxIterations - 1, MaxIterations}

\* the open orders of this account the calls start from
CancelBooks ==
  LET bids == { <<>>,
                << [price |-> 98000, qty |-> 10, mine |-> TRUE] >>,
                << [price |-> 98000, qty |-> 10, mine |-> TRUE],
                   [price |-> 97000, qty |-> 5, mine |-> TRUE] >> }
      asks == { <<>>,
                << [price |-> 102000, qty |-> 10, mine |-> TRUE] >>,
                << [price |-> 102000, qty |-> 10, mine |-> TRUE],
                   [price |-> 103000, qty |-> 5, mine |-> TRUE] >> }
  IN  { [bid |-> b, ask |-> a] : b \in bids, a \in asks }

\* a variant of CancelSideResult whose early return counts the failed reads
\* in the total
CancelSideResultCountsReads(n, k, cf, rf, fin) ==
  IF k = n /\ k + cf + rf < MaxIterations
    THEN [raised |-> FALSE, success |-> k, total |-> k + rf, ops |-> k + cf,
          iterations |-> k + cf + rf + 1]
    ELSE IF fin
      THEN [raised |-> FALSE, success |-> k, total |-> n, ops |-> k + cf,
            iterations |-> k + cf + rf]
      ELSE [raised |-> TRUE, success |-> 0, total |-> 0, ops |-> k + cf,
            iterations |-> k + cf + rf]

\* a variant of CancelSideResult whose total after the loop is the number
\* of remaining rows alone
CancelSideResultRemainingOnly(n, k, cf, rf, fin) ==
  IF k = n /\ k + cf + rf < MaxIterations
    THEN [raised |-> FALSE, success |-> k, total |-> k, ops |-> k + cf,
          iterations |-> k + cf + rf + 1]
    ELSE IF fin
      THEN [raised |-> FALSE, success |-> k, total |-> n - k, ops |-> k + cf,
            iterations |-> k + cf + rf]
      ELSE [raised |-> TRUE, success |-> 0, total |-> 0, ops |-> k + cf,
            iterations |-> k + cf + rf]

\* _cancel_all_open_orders_side on a side of n rows, when k cancel calls
\* succeeded, cf returned False, rf reads of the loop raised, and the read
\* after the loop succeeded (fin) or raised: an empty read inside the loop
\* returns (cancelled, cancelled); after max_iterations iterations the
\* result is (cancelled, cancelled + len(remaining_rows)), or the exception
\* of the last read
CancelSideResult(n, k, cf, rf, fin) ==
  IF k = n /\ k + cf + rf < MaxIterations
    THEN [raised |-> FALSE, success |-> k, total |-> k, ops |-> k + cf,
          iterations |-> k + cf + rf + 1]
    ELSE IF fin
      THEN [raised |-> FALSE, success |-> k, total |-> n, ops |-> k + cf,
            iterations |-> k + cf + rf]
      ELSE [raised |-> TRUE, success |-> 0, total |-> 0, ops |-> k + cf,
            iterations |-> k + cf + rf]

\* the executions of the loop of _cancel_all_open_orders_side on n rows:
\* every iteration is a failed read, a failed cancel or a cancel, but for
\* the one that reads no row and returns; a cancel needs a row
CancelSideRuns(n) ==
  { r \in [k : 0..n, cf : FaultCounts, rf : FaultCounts, fin : BOOLEAN] :
      /\ r.cf > 0 => n > 0
      /\ \/ r.k = n /\ r.k + r.cf + r.rf < MaxIterations /\ r.fin
         \/ r.k + r.cf + r.rf = MaxIterations }

\* an engine is constructed on a book and cancel_all_open_orders is called
CancelInit ==
  /\ ConstructedOn(CancelBooks)
  /\ plan_in = NoPlan
  /\ plan_out = NoResult

\* the calls made so far, of cancel_all_open_orders and of
\* _cancel_all_open_orders_side on its own
CancelCalls == Len(SelectSeq(trace, LAMBDA e : e.ev \in {"cancel_all", "iterations"}))

\* a call of _cancel_all_open_orders_side(driver, s) on its own: the history
\* gets the iterations the loop made and the cancel operations it issued
CancelSideCall ==
  /\ CancelCalls < MaxCalls
  /\ plan_out.arg # "raised"
  /\ \E s \in Sides :
       \E r \in CancelSideRuns(Len(ReadOpenOrdersSide(book, s))) :
         LET o == CancelSideResult(Len(ReadOpenOrdersSide(book, s)), r.k, r.cf, r.rf, r.fin)
         IN  /\ book' = [book EXCEPT ![s] = CancelAllOpenOrdersSide(book, s, r.k)]
             /\ trace' = trace \o << Ev("iterations", "-", s, 0, o.iterations, "-"),
                                      Ev("cancel_side", "-", s, 0, o.ops,
                                         IF o.raised THEN "raised" ELSE "returned") >>
             /\ plan_out' = [fn |-> "cancel_side",
                             arg |-> IF o.raised THEN "raised" ELSE "returned",
                             out |-> IF o.raised THEN <<>> ELSE << o.success, o.total >>,
                             den |-> 1]
  /\ UNCHANGED << engine, side, fixed, balance, plan_in, pc, ret, cur, anchorvars,
                  rebalance_lock, clock, now, attempt, localvars, faults, envs,
                  decision >>

\* a call of cancel_all_open_orders: the bid side, then the ask side; the
\* history gets one event per side, with the cancel operations issued
CancelAllCall ==
  /\ CancelCalls < MaxCalls
  /\ plan_out.arg # "raised"
  /\ LET nb == Len(ReadOpenOrdersSide(book, "bid"))
         na == Len(ReadOpenOrdersSide(book, "ask"))
     IN  \E rb \in CancelSideRuns(nb), ra \in CancelSideRuns(na) :
           LET ob == CancelSideResult(nb, rb.k, rb.cf, rb.rf, rb.fin)
               oa == CancelSideResult(na, ra.k, ra.cf, ra.rf, ra.fin)
               evb == Ev("cancel_side", "-", "bid", 0, ob.ops,
                         IF ob.raised THEN "raised" ELSE "returned")
               eva == Ev("cancel_side", "-", "ask", 0, oa.ops,
                         IF oa.raised THEN "raised" ELSE "returned")
           IN  IF ob.raised
                 THEN /\ book' = [book EXCEPT !["bid"] =
                                    CancelAllOpenOrdersSide(book, "bid", rb.k)]
                      /\ trace' = trace \o << evb, Mark("cancel_all") >>
                      /\ plan_out' = [fn |-> "cancel_all", arg |-> "raised",
                                       out |-> <<>>, den |-> 1]
                 ELSE /\ book' = CancelAllOpenOrders(book, rb.k, ra.k)
                      /\ trace' = trace \o << evb, eva, Mark("cancel_all") >>
                      /\ plan_out' =
                           IF oa.raised
                             THEN [fn |-> "cancel_all", arg |-> "raised",
                                   out |-> <<>>, den |-> 1]
                             ELSE [fn |-> "cancel_all", arg |-> "returned",
                                   out |-> << ob.success + oa.success,
                                              ob.total + oa.total >>,
                                   den |-> 1]
  /\ UNCHANGED << engine, side, fixed, balance, plan_in, pc, ret, cur, anchorvars,
                  rebalance_lock, clock, now, attempt, localvars, faults, envs,
                  decision >>

CancelNext ==
  \/ CancelAllCall
  \/ CancelSideCall

CancelSpec == CancelInit /\ [][CancelNext]_vars

\* ----------------------------------------------------- get_binance_price
\* the defaults of get_binance_price; base_delay in milliseconds
max_retries == 5
base_delay == 500

\* how an attempt can fail: requests.RequestException (connection, timeout,
\* raise_for_status), ValueError (r.json(), float()), or another exception
\* (KeyError of r.json()["price"], TypeError of float(None))
FetchFailures == {"RequestException", "ValueError", "KeyError"}

\* except (requests.RequestException, ValueError)
FetchCaught == {"RequestException", "ValueError"}

\* a variant of SleepSec whose delay grows linearly
SleepSecLinear(a) == base_delay * a

\* sleep_sec = base_delay * (2 ** (attempt - 1))
SleepSec(a) == base_delay * Pow(2, a - 1)

\* get_binance_price is called
FetchInit ==
  /\ Constructed
  /\ plan_in = NoPlan
  /\ plan_out = NoResult

\* one iteration of the loop of get_binance_price, with the sleep that
\* follows a caught failure; attempt counts the iterations made
FetchAttempt ==
  /\ plan_out = NoResult
  /\ attempt < max_retries
  /\ attempt' = attempt + 1
  /\ \E p \in FeedPrices \cup {None}, exc \in FetchFailures :
       LET try == Ev("attempt", "-", "-", IF p # None THEN p ELSE 0, attempt',
                     IF p # None THEN "ok" ELSE exc)
       IN  CASE p # None ->
                  /\ trace' = Append(trace, try)
                  /\ plan_out' = [fn |-> "get_binance_price", arg |-> "returned",
                                   out |-> << p >>, den |-> 1]
             [] p = None /\ exc \notin FetchCaught ->
                  /\ trace' = Append(trace, try)
                  /\ plan_out' = [fn |-> "get_binance_price", arg |-> exc,
                                   out |-> <<>>, den |-> 1]
             [] p = None /\ exc \in FetchCaught /\ attempt' = max_retries ->
                  /\ trace' = Append(trace, try)
                  /\ plan_out' = [fn |-> "get_binance_price", arg |-> "RuntimeError",
                                   out |-> <<>>, den |-> 1]
             [] OTHER ->
                  /\ trace' = trace \o << try, Ev("sleep", "-", "-", 0,
                                                   SleepSec(attempt'), "-") >>
                  /\ plan_out' = plan_out
  /\ UNCHANGED << engine, side, fixed, balance, plan_in, pc, ret, cur, anchorvars,
                  rebalance_lock, clock, now, book, localvars, faults, envs,
                  decision >>

FetchSpec == FetchInit /\ [][FetchAttempt]_vars


\* ================================================================= claims
\* the last sync fetched a price and read the book: it took a decision
Decided ==
  /\ decision.prev # None
  /\ decision.new # None
  /\ decision.path # "error"

\* the decision led where it says: a full rebalance is entered from the
\* sync path only on the decision "full", and a refill-only pass re-anchors
\* on the price fetched
DecisionActed ==
  /\ (pc = "fr_begin" /\ ret = "sync") => decision.path = "full"
  /\ (trace # <<>> /\ trace[1].ev = "refill_only")
       => decision.path = "refill_only" /\ trace[1].price = decision.new

\* the relative move of the last sync exceeds 0.3 percent
MovedBeyondThreshold ==
  Abs(decision.new - decision.prev) * 1000 > 3 * decision.prev

\* C1: in the dual engine a sync does a full rebalance exactly when the
\* bid side or the ask side has no resting order of the engine or the price
\* moved by more than 0.3 percent of the previous anchor; in every other
\* case it does a refill-only pass
C1_DualDecision ==
  /\ (engine = "dual" /\ Decided) =>
       /\ decision.path \in {"full", "refill_only"}
       /\ decision.path = "full"
            <=> (decision.bids = 0 \/ decision.asks = 0 \/ MovedBeyondThreshold)
  /\ engine = "dual" => DecisionActed

\* a dual sync with both sides populated and a move of 0.5 percent
\* (100000 -> 100500) has entered the full rebalance
C1_Witness ==
  /\ engine = "dual"
  /\ decision = [prev |-> 100000, new |-> 100500, bids |-> decision.bids,
                 asks |-> decision.asks, path |-> "full"]
  /\ decision.bids > 0
  /\ decision.asks > 0
  /\ pc = "fr_begin"
  /\ ret = "sync"

\* own resting orders on the engine's side at the last sync
OwnRows == IF side = "bid" THEN decision.bids ELSE decision.asks

\* C2: a single-side engine whose book is not empty does a full rebalance
\* when the price moved towards its side's aggressive direction (bid: up,
\* ask: down) and a refill-only pass when it moved the other way
C2_SingleSideDecision ==
  /\ (engine # "dual" /\ Decided /\ OwnRows > 0) =>
       IF side = "bid"
         THEN /\ decision.new > decision.prev => decision.path = "full"
              /\ decision.new < decision.prev => decision.path = "refill_only"
         ELSE /\ decision.new < decision.prev => decision.path = "full"
              /\ decision.new > decision.prev => decision.path = "refill_only"
  /\ engine # "dual" => DecisionActed

\* a bid engine with resting bids saw the price fall and re-anchored
\* without a full rebalance
C2_Witness ==
  /\ engine \in {"follow", "legacy"}
  /\ side = "bid"
  /\ Decided
  /\ decision.bids > 0
  /\ decision.new < decision.prev
  /\ decision.path = "refill_only"
  /\ anchor_price = decision.new
  /\ pc = "refill_check"


SetupPhase == {"bait", "scan", "balance", "sweep", "anchor_qty", "anchor"}
BeforeLadderEnd == {"fr_trim", "ladder"} \cup SetupPhase

\* rank of a history event in the order of a full rebalance
Rank(ev) ==
  CASE ev \in {"lock"} -> 0
    [] ev \in {"set_anchor"} -> 1
    [] ev \in {"trim"} -> 2
    [] ev \in {"bait", "scan", "balance", "sweep", "anchor"} -> 3
    [] ev \in {"ladder", "ladder_trim"} -> 4
    [] ev \in {"state"} -> 5
    [] OTHER -> 6

\* the events of the full rebalance the history starts with, up to its end
RebalanceEvents ==
  IF trace = <<>> \/ trace[1].ev # "lock" THEN <<>>
  ELSE LET ends == { i \in 1..Len(trace) : trace[i].ev \in {"unlock", "raise"} }
       IN  IF ends = {} THEN trace
           ELSE SubSeq(trace, 1, CHOOSE i \in ends : \A j \in ends : i <= j)

\* the events of a full rebalance come in the order trim, bait / sweep /
\* anchor, ladder, state update
RebalanceOrdered ==
  \A i, j \in 1..Len(RebalanceEvents) :
    i < j => Rank(RebalanceEvents[i].ev) <= Rank(RebalanceEvents[j].ev)

\* C4 as stated: no anchor-state field, the anchor price among them,
\* changes before the ladder fill of a full rebalance ended
C4_AnchorStateAfterLadder ==
  [][(pc \in BeforeLadderEnd \cup {"fr_begin"} /\ anchor_price # None)
       => UNCHANGED << anchor_price, prev_anchor_price, last_rebalance_ts >>]_vars

\* C4: a full rebalance sets the anchor price (and the adjustment) first,
\* then trims, then does bait / sweep / anchor, then fills the ladder, and
\* only then updates the previous anchor price and the rebalance time: no
\* ladder order is submitted before bait / sweep / anchor ended, the anchor
\* price does not change from the trim to the end of the ladder fill, and
\* the previous anchor price and the rebalance time do not change before
\* the ladder fill ended
C4_RebalanceOrder ==
  /\ [](RebalanceOrdered)
  /\ [][/\ pc \in BeforeLadderEnd
             => UNCHANGED << anchor_price, price_adjustment, prev_anchor_price,
                             last_rebalance_ts >>
        /\ pc = "fr_begin" => UNCHANGED << prev_anchor_price, last_rebalance_ts >>
        /\ (pc = "fr_begin" /\ pc' = "fr_trim") => anchor_price' \in FeedPrices
        /\ pc = "fr_end" => /\ prev_anchor_price' = anchor_price
                            /\ last_rebalance_ts' = clock
                            /\ UNCHANGED anchor_price]_vars

\* a full rebalance that trimmed, baited, swept, anchored, filled the
\* ladder and updated the anchor state, in this order
C4_Witness ==
  /\ pc \in {"loop", "refill_check", "sleep"}
  /\ \E t, b, w, a, l, u \in 1..Len(RebalanceEvents) :
       /\ t < b /\ b < w /\ w < a /\ a < l /\ l < u
       /\ RebalanceEvents[t].ev = "trim"
       /\ RebalanceEvents[b].ev = "bait"
       /\ RebalanceEvents[w].ev = "sweep"
       /\ RebalanceEvents[a].ev = "anchor"
       /\ RebalanceEvents[l].ev = "ladder"
       /\ RebalanceEvents[u].ev = "state"
  /\ prev_anchor_price = anchor_price
  /\ last_rebalance_ts = clock


Last(seq) == seq[Len(seq)]

\* the step is an attempt of a retry loop: place_limit_order was called
Attempted == pc \in {"bait", "sweep", "anchor"} /\ trace' # trace

\* the step leaves the bait loop without a bait the loop took for placed
BaitGivenUp == pc = "bait" /\ pc' \notin {"bait", "scan"}

\* C5: when every attempt to place the bait of a side failed, the
\* rebalance submits no sweep order and no anchor order for that side: a
\* sweep or anchor order of a side comes after a bait attempt of that side
\* for which place_limit_order returned true
C5_NoSweepNoAnchorWithoutBait ==
  \A i \in 1..Len(RebalanceEvents) :
    RebalanceEvents[i].ev \in {"sweep", "anchor"} =>
      \E j \in 1..(i - 1) :
        /\ RebalanceEvents[j].ev = "bait"
        /\ RebalanceEvents[j].for = RebalanceEvents[i].for
        /\ RebalanceEvents[j].res = "ok"

C8_RetryContract ==
  [][Attempted =>
       /\ attempt < MaxRetries
       /\ (Last(trace').res # "ok" /\ attempt < MaxRetries - 1)
            => (pc' = pc /\ cur' = cur /\ attempt' = attempt + 1)
       /\ Last(trace').res = "ok" => attempt' = 0]_vars

\* the scan event a sweep event at position i is sized from
ScanBefore(i) ==
  LET S == { j \in 1..(i - 1) :
               /\ RebalanceEvents[j].ev = "scan"
               /\ RebalanceEvents[j].for = RebalanceEvents[i].for }
  IN  IF S = {} THEN 0 ELSE CHOOSE j \in S : \A k \in S : k <= j

\* C9: every sweep order is on the side being established, at the target
\* price, for the bait quantity plus the quantities of the blocking orders
\* the scan found
C9_SweepSizing ==
  \A i \in 1..Len(RebalanceEvents) :
    RebalanceEvents[i].ev = "sweep" =>
      /\ RebalanceEvents[i].side = RebalanceEvents[i].for
      /\ RebalanceEvents[i].price = TargetPrice
      /\ ScanBefore(i) # 0
      /\ RebalanceEvents[i].qty = BaitQty + RebalanceEvents[ScanBefore(i)].qty

\* C10: a sweep order is submitted only after the balance check of its
\* side passed in the same rebalance
C10_SweepOnlyAfterBalanceCheck ==
  \A i \in 1..Len(RebalanceEvents) :
    RebalanceEvents[i].ev = "sweep" =>
      \E j \in 1..(i - 1) :
        /\ RebalanceEvents[j].ev = "balance"
        /\ RebalanceEvents[j].for = RebalanceEvents[i].for
        /\ RebalanceEvents[j].res = "ok"

\* the events of the rebalance path of a tick: the refill-only branch of
\* the sync, or a full rebalance that ran to its end
RebalancePathEvents == {"refill_only", "state", "unlock"}

\* the rebalance path ran on the tick in progress
RebalancePathRan ==
  \E i \in 1..Len(trace) : trace[i].ev \in RebalancePathEvents

\* C11: at most one path runs per tick: the refill path is not entered on a
\* tick on which the rebalance path (refill-only branch or full rebalance
\* of the sync) ran
C11_OnePathPerTick ==
  pc = "refill" => ~RebalancePathRan

\* number of ladder orders of side s submitted in a history
LadderSubmitted(tr, s) ==
  Cardinality({ i \in 1..Len(tr) : tr[i].ev = "ladder" /\ tr[i].side = s })

\* deficit of side s: levels minus the resting orders of the engine
Deficit(bk, s) == MM_LEVELS - Len(ReadOpenOrdersSide(bk, s))

\* the ladder orders of side s submitted by the step
LadderSubmittedByStep(s) ==
  LadderSubmitted(trace', s) - (IF pc = "refill" THEN LadderSubmitted(trace, s) ELSE 0)

\* C12: a refill (the top-up of the refill interval and the refill-only
\* branch of the sync) submits for a side at most deficit = levels - resting
\* orders of that side new ladder orders, and none when the deficit is not
\* positive
C12_RefillSizeBound ==
  [][(pc = "sync" \/ pc = "refill") =>
       (\A s \in Sides : LadderSubmittedByStep(s) <= Max(0, Deficit(book, s)))]_vars

\* the history events the step appended (a sync starts a new history)
StepEvents ==
  IF pc = "refill" THEN SubSeq(trace', Len(trace) + 1, Len(trace')) ELSE trace'

\* the ladder orders of side s among the events of the step
StepLadder(s) ==
  SelectSeq(StepEvents, LAMBDA e : e.ev = "ladder" /\ e.side = s)

\* what a sequence of orders of side s commits: notional for bids,
\* quantity for asks
Committed(rows, s) == IF s = "bid" THEN SumNotional(rows) ELSE SumQty(rows)

\* the ladder budget of side s as the engine computes it, << num, den >>
SideBudget(s) == LadderBudget(engine, fixed, s, anchor_price', Available(s))

\* C13: in the engines of src/bot a refill that adds levels to a side on
\* which orders are resting allocates to the new levels at most the side's budget minus what the
\* resting orders of the engine commit, and never less than nothing
C13_RefillBudgetBound ==
  [][(engine # "legacy" /\ (pc = "sync" \/ pc = "refill")) =>
       (\A s \in Sides :
          (ReadOpenOrdersSide(book, s) # <<>> /\ StepLadder(s) # <<>>) =>
            /\ Committed(StepLadder(s), s) >= 0
            /\ Committed(StepLadder(s), s) * SideBudget(s)[2]
                 <= Max(0, SideBudget(s)[1]
                             - Committed(ReadOpenOrdersSide(book, s), s) * SideBudget(s)[2]))]_vars

\* the prices of the engine's resting orders of side s
RestingPrices(bk, s) ==
  { ReadOpenOrdersSide(bk, s)[i].price : i \in 1..Len(ReadOpenOrdersSide(bk, s)) }

\* C14: no price level a refill (top-up or refill-only branch) submits an
\* order at equals the price of an order of the engine resting on that side
C14_RefillNoDuplicatePrice ==
  [][(engine # "legacy" /\ (pc = "sync" \/ pc = "refill")) =>
       (\A s \in Sides : \A i \in 1..Len(StepLadder(s)) :
          StepLadder(s)[i].price \notin RestingPrices(book, s))]_vars

\* a call of the ladder planner returned
LevelsPlanned == plan_out.fn = "levels"

\* the exact k-th level, anchor * (1 -/+ step) ** k, is StepNumOf / StepDen
\* of the anchor; the comparisons below are multiplied out over a reduced
\* fraction
ExactNum(k) ==
  (plan_in.anchor \div GCD(plan_in.anchor, StepDen(k))) * StepNumOf(plan_out.arg, plan_in.step, k)
ExactDen(k) == StepDen(k) \div GCD(plan_in.anchor, StepDen(k))

\* C15 as stated: the bid ladder is strictly decreasing and every price is
\* strictly below anchor * (1 - step); the ask ladder is strictly increasing
\* and every price is strictly above anchor * (1 + step)
C15_LadderStrictBounds ==
  LevelsPlanned =>
    /\ \A k \in 1..(Len(plan_out.out) - 1) :
         IF plan_out.arg = "bid" THEN plan_out.out[k] > plan_out.out[k + 1]
                                 ELSE plan_out.out[k] < plan_out.out[k + 1]
    /\ \A k \in 1..Len(plan_out.out) :
         IF plan_out.arg = "bid"
           THEN plan_out.out[k] * ExactDen(1) < ExactNum(1)
           ELSE plan_out.out[k] * ExactDen(1) > ExactNum(1)

\* C15: the bid ladder never increases and the ask ladder never decreases
\* with the level index; no bid price is above, and no ask price is below,
\* the first level, which is anchor * (1 -/+ step) rounded to the price
\* precision; two consecutive levels whose exact values are more than one
\* unit of the price precision apart have strictly ordered prices
C15_LadderMonotone ==
  LevelsPlanned =>
    /\ \A k \in 1..(Len(plan_out.out) - 1) :
         /\ IF plan_out.arg = "bid" THEN plan_out.out[k] >= plan_out.out[k + 1]
                                    ELSE plan_out.out[k] <= plan_out.out[k + 1]
         \* the exact levels k and k + 1 are level k times step apart
         /\ ExactNum(k) * plan_in.step > ExactDen(k) * 100
              => plan_out.out[k] # plan_out.out[k + 1]
    /\ plan_out.out[1] = NormalizePrice(engine, ExactNum(1), ExactDen(1))
    /\ \A k \in 1..Len(plan_out.out) :
         IF plan_out.arg = "bid" THEN plan_out.out[k] <= plan_out.out[1]
                                 ELSE plan_out.out[k] >= plan_out.out[1]

\* the planner returned the bid ladder of an anchor of 30 price units with
\* a step of 1 percent: the first level is the anchor itself and the
\* second and third levels are one price
C15_Witness ==
  /\ LevelsPlanned
  /\ plan_out.arg = "bid"
  /\ plan_in = [anchor |-> 30, levels |-> 3, step |-> 1]
  /\ plan_out.out[1] = 30
  /\ plan_out.out[2] = plan_out.out[3]

\* C16: in the engines of src/bot the planner returns exactly `levels`
\* prices, the k-th being the value of the price precision nearest to
\* anchor * (1 - step) ** k for bid and anchor * (1 + step) ** k for ask;
\* an anchor of 100 with 3 levels and a step of 1 percent gives the bid
\* ladder 99.0, 98.01, 97.0299 (here in units of 0.0001)
C16_LadderFormula ==
  (LevelsPlanned /\ engine # "legacy") =>
    /\ Len(plan_out.out) = plan_in.levels
    /\ \A k \in 1..Len(plan_out.out) :
         2 * Abs(plan_out.out[k] * ExactDen(k) - ExactNum(k)) <= ExactDen(k)
    /\ (plan_in = [anchor |-> 1000000, levels |-> 3, step |-> 1] /\ plan_out.arg = "bid")
         => plan_out.out = << 990000, 980100, 970299 >>

\* an engine of src/bot planned the bid ladder of the example
C16_Witness ==
  /\ LevelsPlanned
  /\ engine # "legacy"
  /\ plan_out.arg = "bid"
  /\ plan_in = [anchor |-> 1000000, levels |-> 3, step |-> 1]
  /\ plan_out.out = << 990000, 980100, 970299 >>

\* a call of _get_weights returned
WeightsPlanned == plan_out.fn = "weights"

RECURSIVE SumSeq(_)
SumSeq(q) == IF q = <<>> THEN 0 ELSE Head(q) + SumSeq(Tail(q))

\* C17: _get_weights(N, mode) has N weights that sum to 1; with "EQUAL"
\* each is 1 / N, with "PYRAMID" the i-th is i / (1 + 2 + ... + N) and the
\* weights strictly increase with the level index
C17_WeightVectors ==
  WeightsPlanned =>
    /\ Len(plan_out.out) = plan_in.levels
    /\ plan_out.den > 0
    /\ SumSeq(plan_out.out) = plan_out.den
    /\ plan_out.arg = "EQUAL" =>
         \A i \in 1..Len(plan_out.out) :
           plan_out.out[i] * plan_in.levels = plan_out.den
    /\ plan_out.arg = "PYRAMID" =>
         /\ \A i \in 1..Len(plan_out.out) :
              plan_out.out[i] * SumSeq([j \in 1..plan_in.levels |-> j]) = i * plan_out.den
         /\ \A i \in 1..(Len(plan_out.out) - 1) : plan_out.out[i] < plan_out.out[i + 1]

\* _get_weights(3, "PYRAMID") returned 1/6, 2/6, 3/6
C17_Witness ==
  /\ WeightsPlanned
  /\ plan_out.arg = "PYRAMID"
  /\ plan_in.levels = 3
  /\ plan_out.out = << 1, 2, 3 >>
  /\ plan_out.den = 6

\* price p is at least as close to the touch as price q on side s
Closer(s, p, q) == IF s = "bid" THEN p >= q ELSE p <= q

\* the step is an invocation of _remove_excess_orders of the follow engine:
\* from full_rebalance, or from _refill_ladder_to_target on a side that is
\* over its level count
TrimStep ==
  /\ engine = "follow"
  /\ \/ pc = "fr_trim"
     \/ /\ pc \in {"ladder", "refill"}
        /\ LadderPlan(engine, fixed, side, ReadOpenOrdersSide(book, side)) = "trim"

\* C18: _remove_excess_orders issues no cancel when the side has at most
\* `levels` orders; otherwise it issues at most max_cancel_ops_per_cycle
\* cancels, the first on the order farthest from the touch and each next on
\* one no farther, each on an order that has `levels` other orders at least
\* as close to the touch; no other order leaves the book
C18_ExcessTrimSingle ==
  [][TrimStep =>
       LET T == RemoveExcessTargets(book, side)
           own == Range(MineIdx(book, side))
       IN  /\ Len(T) <= MM_MAX_CANCEL_OPS_PER_CYCLE
           /\ Cardinality(own) <= MM_LEVELS => T = <<>>
           /\ Cardinality(own) > MM_LEVELS => T # <<>>
           /\ Range(T) \subseteq own
           /\ \A a \in 1..Len(T) :
                /\ Cardinality({ j \in own \ {T[a]} :
                       Closer(side, book[side][j].price, book[side][T[a]].price) })
                     >= MM_LEVELS
                /\ \A b \in 1..(a - 1) :
                     Closer(side, book[side][T[a]].price, book[side][T[b]].price)
           /\ T # <<>> =>
                \A j \in own : Closer(side, book[side][j].price, book[side][T[1]].price)
           /\ \E R \in SUBSET Range(T) :
                book' = [book EXCEPT ![side] = KeepIdx(book[side], R)]]_vars

\* a trim of the follow engine on a side with more than one surplus order
\* has cancelled one order: surplus orders are still resting
C18_Witness ==
  /\ engine = "follow"
  /\ trace # <<>>
  /\ Last(trace).ev = "ladder_trim"
  /\ Last(trace).for = side
  /\ Last(trace).qty = 1
  /\ Len(ReadOpenOrdersSide(book, side)) > MM_LEVELS

\* C19: when _remove_excess_orders_both_sides runs, a side that is not over
\* its level count keeps all its orders, and a side that is over it loses
\* only surplus orders: at most max_cancel_ops_per_cycle of them, none of
\* the `levels` closest to the touch, the farthest ones first
C19_ExcessTrimBothSides ==
  [][(engine = "dual" /\ pc = "fr_trim") =>
       (\A s \in Sides :
          LET own == Range(MineIdx(book, s))
              surplus == Cardinality(own) - MM_LEVELS
          IN  /\ surplus <= 0 => book'[s] = book[s]
              /\ surplus > 0 =>
                   \E R \in SUBSET own :
                     /\ Cardinality(R) <= Min(MM_MAX_CANCEL_OPS_PER_CYCLE, surplus)
                     /\ book'[s] = KeepIdx(book[s], R)
                     /\ \A i \in R, j \in own \ R :
                          Closer(s, book[s][j].price, book[s][i].price))]_vars

\* the run is in its startup: balance validation, cleanup attempts and the
\* read of both sides that follows them
InStartup == pc \in {"validate", "clean", "verify"}

\* this account has no resting order on either side of bk
NoRestingOrder(bk) ==
  /\ ReadOpenOrdersSide(bk, "bid") = <<>>
  /\ ReadOpenOrdersSide(bk, "ask") = <<>>

\* the startup cleanup of the engines that have one
StartupCleanupSteps ==
  [][/\ pc = "clean" =>
          /\ attempt < MaxAttempts
          /\ (attempt = MaxAttempts - 1 /\ ~NoRestingOrder(book')) => pc' = "crashed"
          /\ pc' = "verify" => NoRestingOrder(book')
     /\ (InStartup /\ pc' = "fr_begin") => (pc = "verify" /\ NoRestingOrder(book))]_vars

\* C20: the startup makes at most 3 full-cleanup attempts, ends the run with
\* a fatal error when orders remain after the last one, and the first
\* rebalance (the first submission of a bait, sweep, anchor or ladder order)
\* begins only after a cleanup attempt that reported every order cancelled
\* and a read of both sides that returned no resting order
C20_StartupCleanup ==
  /\ [](pc = "fr_begin" /\ ret = "init" /\ clock = 0 => NoRestingOrder(book))
  /\ StartupCleanupSteps

\* the step is a call of cancel_all_open_orders
CancelCalled == plan_out'.fn = "cancel_all" /\ trace' # trace

\* the cancel operations the call of the step issued
CancelOpsIssued ==
  LET evs == SubSeq(trace', Len(trace) + 1, Len(trace'))
      F[i \in 0..Len(evs)] == IF i = 0 THEN 0 ELSE F[i - 1] + evs[i].qty
  IN  F[Len(evs)]

\* C21: a call of cancel_all_open_orders on a book with no resting order of
\* the account issues no cancel operation, leaves the book as it is, and
\* what it returns is (0, 0); so does a call right after one that emptied
\* the book
C21_CancelAllIdempotent ==
  [][(CancelCalled /\ NoRestingOrder(book)) =>
       /\ CancelOpsIssued = 0
       /\ book' = book
       /\ plan_out'.arg = "returned" => plan_out'.out = <<0, 0>>]_vars

\* a first call cancelled two orders and emptied the book, and the call
\* right after it returned (0, 0)
C21_Witness ==
  /\ Len(trace) = 6
  /\ trace[1].qty + trace[2].qty >= 2
  /\ NoRestingOrder(book)
  /\ trace[4].qty + trace[5].qty = 0
  /\ plan_out.arg = "returned"
  /\ plan_out.out = <<0, 0>>

\* the step is a failed fetch of the reference price on a rebalance-interval
\* tick of the follow or the dual engine: in _sync_with_binance, or in the
\* full rebalance the sync called
FeedErrorStep ==
  /\ engine # "legacy"
  /\ \/ pc = "sync" /\ decision'.new = None
     \/ pc = "fr_begin" /\ ret = "sync" /\ trace' = << Mark("lock"), Mark("raise") >>

\* C22: when the reference price is unavailable on a rebalance-interval
\* tick, in the sync or in the full rebalance it triggers, the tick is
\* skipped: no order is placed or cancelled, anchorPrice, prevAnchorPrice
\* and lastRebalanceTs keep their values, and the run goes on
C22_FeedErrorSkipsTick ==
  [][FeedErrorStep =>
       /\ book' = book
       /\ UNCHANGED << anchor_price, prev_anchor_price, last_rebalance_ts >>
       /\ pc' \notin {"crashed", "returned"}]_vars

\* the call of get_binance_price has ended
FetchEnded == plan_out.fn = "get_binance_price"

\* the history of a call of get_binance_price follows the retry contract
\* when the failures in kinds are the ones an attempt is retried after:
\* at most max_retries attempts; after a failure of a kind in kinds that
\* is not the last attempt, a sleep of base_delay * 2^(attempt-1) and
\* nothing else; no sleep anywhere else; the call ends at the first
\* success with its price, or after max_retries failures with
\* RuntimeError, or at the first failure of another kind with that
\* exception
FetchContract(kinds) ==
  /\ attempt <= max_retries
  /\ \A i \in 1..Len(trace) :
       /\ trace[i].ev = "attempt" =>
            LET retried == /\ trace[i].res \in kinds
                           /\ trace[i].qty < max_retries
            IN  /\ retried => (i < Len(trace) /\ trace[i + 1].ev = "sleep"
                                /\ trace[i + 1].qty = base_delay * Pow(2, trace[i].qty - 1))
                /\ ~retried => (i = Len(trace) /\ FetchEnded)
       /\ trace[i].ev = "sleep" =>
            /\ i > 1
            /\ trace[i - 1].ev = "attempt"
            /\ trace[i - 1].res # "ok"
            /\ trace[i - 1].qty < max_retries
  /\ FetchEnded =>
       /\ trace # <<>>
       /\ Last(trace).ev = "attempt"
       /\ Last(trace).qty = attempt
       /\ CASE Last(trace).res = "ok" ->
                 plan_out.arg = "returned" /\ plan_out.out = << Last(trace).price >>
            [] Last(trace).res \in kinds ->
                 plan_out.arg = "RuntimeError" /\ attempt = max_retries
            [] OTHER -> plan_out.arg = Last(trace).res

\* C23: get_binance_price makes at most max_retries attempts, returns the
\* price of the first attempt that succeeds, sleeps base_delay *
\* 2^(attempt-1) between consecutive attempts and not after the last one,
\* retries after every kind of failed attempt, and raises RuntimeError once
\* all attempts have failed
C23_FetchRetriesEveryFailure == FetchContract(FetchFailures)

\* C23 (amended): the same, but an attempt is retried only after a
\* requests.RequestException or a ValueError; any other exception of an
\* attempt ends the call at once with that exception, without a sleep
C23_FetchRetriesCaught == FetchContract(FetchCaught)

\* two caught failures, each followed by its sleep, and a third attempt
\* that returned its price
C23_Witness ==
  /\ FetchEnded
  /\ plan_out.arg = "returned"
  /\ attempt = 3
  /\ Len(trace) = 5
  /\ trace[2].qty = base_delay
  /\ trace[4].qty = 2 * base_delay
  /\ plan_out.out = << trace[5].price >>

\* the calls of driver.quit() so far
QuitCalls == Len(SelectSeq(trace, LAMBDA e : e.ev = "quit"))

\* C24: whenever the engine run has ended (run_mm returned, an exception
\* or KeyboardInterrupt left it), driver.quit() is invoked afterwards,
\* exactly once and not before the end of the run, and the runner ends
\* normally whether quit raised or not
C24_ChannelRelease ==
  /\ [](QuitCalls = IF pc = "shutdown" THEN 1 ELSE 0)
  /\ [][(pc' = "shutdown" \/ QuitCalls' # QuitCalls) => (RunEnded /\ pc' = "shutdown")]_vars
  /\ (RunEnded ~> pc = "shutdown")

\* a run that had set its anchor was interrupted from the keyboard,
\* driver.quit() raised, and the runner ended normally
C24_Witness ==
  /\ pc = "shutdown"
  /\ ~rebalance_lock
  /\ Last(trace).ev = "quit"
  /\ Last(trace).for = "interrupted"
  /\ Last(trace).res = "raised"
  /\ anchor_price # None

\* the history is the one of a full rebalance of an engine of src/bot
InFullRebalance == engine # "legacy" /\ trace # <<>> /\ trace[1].ev = "lock"

\* the anchor and ladder orders of side s the full rebalance has placed
BudgetOrders(s) ==
  SelectSeq(RebalanceEvents, LAMBDA e : e.ev \in {"anchor", "ladder"} /\ e.side = s /\ e.res = "ok")

\* the budget of side s, << num, den >>: quote notional for the bid side,
\* base quantity for the ask side
WholeBudget(s) ==
  IF engine = "dual"
    THEN IF s = "bid" THEN << BidFixedAmount, 1 >>
                      ELSE << AskFixedAmount, TargetPrice >>
  ELSE IF s = "bid"
    THEN IF fixed THEN << FixedAmount, 1 >>
                  ELSE << balance.usdt * MM_BUY_BUDGET_RATIO, 10 >>
    ELSE << balance.coin * MM_SELL_QTY_RATIO, 10 >>

\* by how much the orders of side s exceed its budget, times den
OverBudget(s) ==
  Committed(BudgetOrders(s), s) * WholeBudget(s)[2] - WholeBudget(s)[1]

\* half a quantity unit for each order, in the unit of the budget of side s
RoundingSlack(s) ==
  IF s = "bid" THEN SumSeq([i \in 1..Len(BudgetOrders(s)) |-> BudgetOrders(s)[i].price])
               ELSE Len(BudgetOrders(s))

\* C25: in a full rebalance the anchor allocation plus the sum of the ladder
\* allocations of a side never exceeds the side budget (bid: notional of the
\* orders; ask: their quantity)
C25_BudgetSplitStrict ==
  InFullRebalance => \A s \in Sides : OverBudget(s) <= 0

\* the anchor order of side s is sized to budget * anchorBudgetRatio at its
\* price, rounded to the quantity unit
AnchorSized(s) ==
  \A i \in 1..Len(BudgetOrders(s)) :
    LET e == BudgetOrders(s)[i]
    IN  e.ev = "anchor" =>
          e.qty = RoundDiv(WholeBudget(s)[1] * ANCHOR_ORDER_BUDGET_RATIO,
                           WholeBudget(s)[2] * 10 * (IF s = "bid" THEN e.price ELSE 1))

\* C25 (amended): in a full rebalance the anchor order is sized to
\* sideBudget * anchorBudgetRatio at the target price, and the anchor and
\* ladder orders of a side exceed the side budget by at most the rounding
\* of each quantity to its last decimal: half a quantity unit per order
C25_BudgetSplitRounded ==
  InFullRebalance =>
    \A s \in Sides :
      /\ AnchorSized(s)
      /\ 2 * OverBudget(s) <= RoundingSlack(s) * WholeBudget(s)[2]

\* a full rebalance placed the anchor and both ladder levels of the bid
\* side, and the rounded quantities take more than the side budget
C25_Witness ==
  /\ InFullRebalance
  /\ Len(BudgetOrders("bid")) = 1 + MM_LEVELS
  /\ BudgetOrders("bid")[1].ev = "anchor"
  /\ OverBudget("bid") > 0

\* the orders an engine of src/bot has handed to place_limit_order, as the
\* history of the tick or rebalance in progress has them
OrdersHanded ==
  IF engine = "legacy" THEN <<>>
  ELSE SelectSeq(trace, LAMBDA e : e.ev \in {"bait", "sweep", "anchor", "ladder"})

\* C26: the price and the quantity of every bait, sweep, anchor and ladder
\* order reach the venue as the engine rounded them to 8 decimals: what
\* place_limit_order submits equals the rounded price and quantity it was
\* handed
C26_SubmittedAsRounded ==
  \A i \in 1..Len(OrdersHanded) :
    /\ SubmittedPrice(engine, OrdersHanded[i].price) = OrdersHanded[i].price
    /\ SubmittedQty(OrdersHanded[i].qty) = OrdersHanded[i].qty

\* the bait, scan, sweep and anchor events of the full rebalance of the
\* dual engine the history starts with
SetupEvents ==
  IF engine # "dual" THEN <<>>
  ELSE SelectSeq(RebalanceEvents, LAMBDA e : e.ev \in {"bait", "scan", "sweep", "anchor"})

\* place in the sequence of one side
SetupRank(ev) ==
  CASE ev = "bait" -> 1 [] ev = "scan" -> 2 [] ev = "sweep" -> 3 [] OTHER -> 4

\* C27: in a full rebalance of the dual engine each side gets one bait, at
\* most one sweep and at most one anchor (retries apart), in the order bait,
\* scan, sweep, anchor, and the sequence of one side is completed before
\* the sequence of the other side starts
C27_DualSequenceSerialized ==
  /\ \A s \in Sides, k \in {"bait", "sweep", "anchor"} :
       Len(SelectSeq(SetupEvents,
                     LAMBDA e : e.for = s /\ e.ev = k /\ e.res = "ok")) <= 1
  /\ \A i, j \in 1..Len(SetupEvents) :
       (i < j /\ SetupEvents[i].for = SetupEvents[j].for) =>
         SetupRank(SetupEvents[i].ev) <= SetupRank(SetupEvents[j].ev)
  /\ \A i, j, k \in 1..Len(SetupEvents) :
       (i < j /\ j < k) =>
         ~(SetupEvents[i].for = SetupEvents[k].for
             /\ SetupEvents[j].for # SetupEvents[i].for)

\* the step belongs to the top-up path of an engine of src/bot whose
\* anchor exists: the refill check that enters it, or the handler itself
TopUpStep ==
  /\ engine # "legacy"
  /\ anchor_price # None
  /\ \/ pc = "refill"
     \/ pc = "refill_check" /\ pc' = "refill"

\* C28: the top-up path of the refill interval, run when an anchor exists,
\* leaves anchorPrice, prevAnchorPrice, priceAdjustment and lastRebalanceTs
\* as they are
C28_TopUpKeepsAnchor ==
  [][TopUpStep =>
       UNCHANGED << anchor_price, prev_anchor_price, price_adjustment,
                    last_rebalance_ts >>]_vars

\* a top-up of an engine of src/bot, later than the last rebalance, placed
\* a ladder order and returned; the anchor is in place
C28_Witness ==
  /\ engine # "legacy"
  /\ pc = "sleep"
  /\ anchor_price # None
  /\ prev_anchor_price = anchor_price
  /\ last_refill_ts > last_rebalance_ts
  /\ \E i \in 1..Len(trace) :
       /\ trace[i].ev = "refill"
       /\ \E j \in (i + 1)..Len(trace) : trace[j].ev = "ladder" /\ trace[j].res = "ok"

\* C29: when a rebalance-interval tick chooses refill-only, anchorPrice and
\* prevAnchorPrice are both set to the newly fetched price, lastRebalanceTs
\* is set to the time of the tick, and lastRefillTs is left as it is
C29_RefillOnlyStateUpdate ==
  [][(engine # "legacy" /\ pc = "sync" /\ decision'.path = "refill_only") =>
       /\ anchor_price' = decision'.new
       /\ prev_anchor_price' = decision'.new
       /\ last_rebalance_ts' = clock
       /\ last_refill_ts' = last_refill_ts]_vars

\* the example: the dual engine with prevAnchor = 100 fetched 99.9 with
\* orders on both sides, chose refill-only, and its anchor is 99.9
C29_Witness ==
  /\ engine = "dual"
  /\ pc = "refill_check"
  /\ decision.path = "refill_only"
  /\ decision.prev = 100000
  /\ decision.new = 99900
  /\ decision.bids > 0
  /\ decision.asks > 0
  /\ anchor_price = 99900
  /\ prev_anchor_price = 99900
  /\ last_rebalance_ts = clock

\* the events of kind k the full rebalance in progress has for side c
SetupOf(k, c) == SelectSeq(RebalanceEvents, LAMBDA e : e.ev = k /\ e.for = c)

\* the step is a sweep of an engine of src/bot that the venue accepted, in
\* a full rebalance whose bait for the side was accepted and whose scan for
\* the side read the book
SweepSucceeded ==
  /\ engine # "legacy"
  /\ pc = "sweep"
  /\ Last(trace').ev = "sweep"
  /\ Last(trace').res = "ok"
  /\ SetupOf("bait", cur) # <<>>
  /\ Last(SetupOf("bait", cur)).res = "ok"
  /\ SetupOf("scan", cur) # <<>>
  /\ Last(SetupOf("scan", cur)).res = "ok"

\* a resting order at price p is crossed by an order of side c at the target
CrossedAt(c, p) ==
  IF c = "bid" THEN p <= SubmittedPrice(engine, TargetPrice)
               ELSE p >= SubmittedPrice(engine, TargetPrice)

\* C30: in a full rebalance whose bait and sweep were placed, with no other
\* participant between the scan and the sweep, after the sweep the bait is
\* not resting, no blocking order the scan found is resting, and the anchor
\* order at the target price crosses no resting order; for the single-side
\* engine and each side of the dual one
C30_SweepConsumesBait ==
  [][SweepSucceeded =>
       LET opp == book'[Opp(cur)]
       IN  /\ \A i \in 1..Len(opp) :
                ~(opp[i].mine /\ opp[i].price = SubmittedPrice(engine, TargetPrice))
           /\ \A i \in 1..Len(opp), j \in 1..Len(blocking) :
                opp[i].price # blocking[j].price
           /\ \A i \in 1..Len(opp) : ~CrossedAt(cur, opp[i].price)]_vars

\* ------------------------------------------------------------------- C31
\* the step is the sync path of the single-side engine of src/bot on a
\* rebalance-interval tick with a previous anchor, own orders resting on
\* the engine's side, and the price fetched equal to the previous anchor
UnchangedPriceTick ==
  /\ engine = "follow"
  /\ pc = "sync"
  /\ pc' # "sync"
  /\ decision'.prev # None
  /\ decision'.new = decision'.prev
  /\ decision'.path # "error"
  /\ (IF side = "bid" THEN decision'.bids ELSE decision'.asks) > 0

\* C31: on a rebalance-interval tick of the single-side engine with a
\* previous anchor, a non-empty book and the new price equal to the previous
\* anchor, the engine performs refill-only and resets _last_rebalance_ts, so
\* the decision is not evaluated again before the interval has elapsed
C31_UnchangedPriceRefillOnly ==
  [][UnchangedPriceTick =>
       /\ decision'.path = "refill_only"
       /\ last_rebalance_ts' = clock]_vars

\* ------------------------------------------------------------------- C32
\* an engine of src/bot computed the prices of a refill
RefillPlanned == plan_out.fn = "refill" /\ engine # "legacy"

\* the rows the refill read for its side
RefillRows == ReadOpenOrdersSide(book, plan_out.arg)

\* p is the value of the price precision nearest to base * (1 -/+ step) ** k
NearestLevel(p, base, k) ==
  LET g == GCD(base, StepDen(k))
  IN  2 * Abs(p * (StepDen(k) \div g)
              - (base \div g) * StepNumOf(plan_out.arg, plan_in.step, k))
        <= StepDen(k) \div g

\* price p is farther from touch than price q / at least as far as q
Farther(p, q) == IF plan_out.arg = "bid" THEN p < q ELSE p > q
NotNearer(p, q) == IF plan_out.arg = "bid" THEN p <= q ELSE p >= q

\* what C32 says of the number of prices and of their values: deficit prices
\* from the outermost resting price when 0 < c < levels, the full ladder
\* from the anchor when c = 0
RefillFormula ==
  LET c == Len(RefillRows)
      outer == Outer(RefillRows, plan_out.arg)
  IN  /\ (0 < c /\ c < plan_in.levels) =>
           /\ Len(plan_out.out) = plan_in.levels - c
           /\ \A j \in 1..c :
                NotNearer(outer, RefillRows[j].price)
           /\ \A i \in 1..Len(plan_out.out) :
                NearestLevel(plan_out.out[i], outer, i)
      /\ c = 0 =>
           /\ Len(plan_out.out) = plan_in.levels
           /\ \A k \in 1..Len(plan_out.out) :
                NearestLevel(plan_out.out[k], plan_in.anchor, k)

\* C32 as stated: with 0 < c < levels resting orders the refill computes
\* exactly levels - c prices outer * (1 -/+ step) ** i from the outermost
\* resting price, each strictly farther from touch than every resting
\* order; with no resting order it computes the full ladder from the anchor
C32_RefillExtensionStrict ==
  RefillPlanned =>
    /\ RefillFormula
    /\ (0 < Len(RefillRows) /\ Len(RefillRows) < plan_in.levels) =>
         \A i \in 1..Len(plan_out.out), j \in 1..Len(RefillRows) :
           Farther(plan_out.out[i], RefillRows[j].price)

\* C32: the same number of prices and the same values, rounded to the price
\* precision; no computed price is nearer to touch than a resting order,
\* and each is strictly farther than every resting order whenever
\* outer * step is more than one unit of the price precision
C32_RefillExtension ==
  RefillPlanned =>
    /\ RefillFormula
    /\ (0 < Len(RefillRows) /\ Len(RefillRows) < plan_in.levels) =>
         \A i \in 1..Len(plan_out.out), j \in 1..Len(RefillRows) :
           /\ NotNearer(plan_out.out[i], RefillRows[j].price)
           /\ Outer(RefillRows, plan_out.arg) * plan_in.step > 100
                => Farther(plan_out.out[i], RefillRows[j].price)

\* the bid side has two resting orders, the outermost read first, and the
\* refill of a three-level ladder computed the one missing price below the
\* lower of them
C32_Witness ==
  /\ RefillPlanned
  /\ plan_out.arg = "bid"
  /\ plan_in.levels = 3
  /\ plan_in.step = 1
  /\ Len(RefillRows) = 2
  /\ RefillRows[1].price < RefillRows[2].price
  /\ plan_out.out = << 98010 >>

\* ------------------------------------------------------------------- C33
\* the step is the price fetch of a full rebalance that the sync path of an
\* engine of src/bot decided on this tick, and the fetch returned a price
RebalanceOfTickFetched ==
  /\ engine # "legacy"
  /\ pc = "fr_begin"
  /\ ret = "sync"
  /\ decision.path = "full"
  /\ pc' = "fr_trim"

\* C33: a rebalance-interval tick fetches the reference price once: the
\* full rebalance the tick triggers fetches no price of its own, and the
\* anchor price it adopts is the price the decision of the tick was taken on
C33_OnePricePerTick ==
  [][RebalanceOfTickFetched =>
       /\ Last(trace').ev # "set_anchor"
       /\ anchor_price' = decision.new]_vars

\* ------------------------------------------------------------------- C34
\* the control thread is inside full_rebalance / full_rebalance_both_sides,
\* after the lock was taken and before the finally clause ran
FullRebalanceExecuting ==
  pc \in {"fr_trim", "bait", "scan", "balance", "sweep", "anchor_qty", "anchor",
          "ladder", "fr_end"}

\* C34: in the engines of src/bot _rebalance_lock is true exactly while
\* full_rebalance / full_rebalance_both_sides is executing; it is false on
\* every exit from it, by return, by exception or by interrupt, and false
\* wherever the control loop evaluates the refill condition
C34_RebalanceLock ==
  engine # "legacy" =>
    /\ rebalance_lock <=> FullRebalanceExecuting
    /\ pc = "refill_check" => ~rebalance_lock
    /\ pc \in {"crashed", "returned", "interrupted", "shutdown"} => ~rebalance_lock

\* the control loop evaluates the refill condition right after a full
\* rebalance that the sync path of the same tick ran to its end
C34_Witness ==
  /\ engine # "legacy"
  /\ pc = "refill_check"
  /\ ret = "sync"
  /\ trace # <<>>
  /\ trace[1].ev = "lock"
  /\ Last(trace).ev = "unlock"
  /\ ~rebalance_lock

\* ------------------------------------------------------------------- C35
\* the control thread is in the while loop of run_mm, outside a full
\* rebalance: at the top of an iteration or at one of its two checks
InControlLoop == pc \in {"loop", "sync", "refill_check", "refill"}

\* C35: in the engines of src/bot, at the start of every iteration of the
\* control loop (and at both checks of the iteration) _anchor_price and
\* _prev_anchor_price are set and equal; the sync path never finds
\* _prev_anchor_price unset and the refill path never finds _anchor_price
\* unset, so neither calls the full rebalance for lack of an anchor
C35_AnchorStateConsistent ==
  engine # "legacy" =>
    /\ InControlLoop =>
         /\ anchor_price # None
         /\ prev_anchor_price = anchor_price
    /\ decision.path # "none" => decision.prev # None
    /\ ret # "refill"

\* an iteration reaches its refill check after its sync path moved the
\* anchor by a refill-only
C35_Witness ==
  /\ engine # "legacy"
  /\ pc = "refill_check"
  /\ clock > 0
  /\ decision.path = "refill_only"
  /\ decision.new # decision.prev
  /\ anchor_price = decision.new
  /\ prev_anchor_price = anchor_price

\* ------------------------------------------------------------------- C36
\* the step is a run of the refill-interval path of an engine of src/bot
\* that returned to the loop
RefillRan ==
  /\ engine # "legacy"
  /\ pc = "refill"
  /\ pc' = "sleep"

\* the refill condition of run_mm at time t for a value ts of _last_refill_ts
RefillDue(ts, t) == t - ts >= MM_REFILL_INTERVAL_SEC

\* C36: once the refill-interval path has run, with or without a deficit,
\* the refill condition does not hold again before refill_interval_sec has
\* elapsed, in the single-side engine and in the dual-side engine
C36_RefillTimer ==
  [][RefillRan =>
       \A t \in clock..(clock + MM_REFILL_INTERVAL_SEC - 1) :
         ~RefillDue(last_refill_ts', t)]_vars

\* ------------------------------------------------------------------- C37
\* _cancel_all_open_orders_side was called on its own and has ended
CancelSideEnded == plan_out.fn = "cancel_side"

\* the side of that call, the iterations its loop made, and the cancel
\* operations it issued
CancelSideOf == Last(trace).side
CancelIterations == trace[Len(trace) - 1].qty
CancelOperations == Last(trace).qty

\* C37: _cancel_all_open_orders_side ends after at most 50 iterations, with
\* at most one cancel operation per iteration; what it returns is
\* (cancelled, total) with 0 <= cancelled <= total, and cancelled < total
\* only if the loop made all 50 iterations and orders of the side are still
\* resting
C37_BoundedCancelLoop ==
  CancelSideEnded =>
    /\ CancelIterations <= MaxIterations
    /\ CancelOperations <= CancelIterations
    /\ plan_out.arg = "returned" =>
         /\ 0 <= plan_out.out[1]
         /\ plan_out.out[1] <= plan_out.out[2]
         /\ plan_out.out[1] < plan_out.out[2] =>
              /\ CancelIterations = MaxIterations
              /\ ReadOpenOrdersSide(book, CancelSideOf) # <<>>

\* a call on a side of two orders made all 50 iterations, cancelled one
\* order and returned (1, 2) with the other order still resting
C37_Witness ==
  /\ CancelSideEnded
  /\ plan_out.arg = "returned"
  /\ plan_out.out = <<1, 2>>
  /\ CancelIterations = MaxIterations
  /\ Len(ReadOpenOrdersSide(book, CancelSideOf)) = 1

\* ------------------------------------------------------------------- C38
\* the step is _validate_initial_balance of the dual engine
ValidateStep == engine = "dual" /\ pc = "validate" /\ pc' # "validate"

\* the conditions of the check on the balances the account has, at
\* reference price p
GatePassed(p) ==
  /\ balance.usdt * 10 >= BidFixedAmount * 11
  /\ balance.coin > 0
  /\ balance.coin * p * 10 >= AskFixedAmount * 11

\* C38: the dual engine places or cancels no order before
\* _validate_initial_balance has passed; the check passes only with
\* available quote balance >= 1.1 * bid_fixed_amount, available base
\* quantity > 0 and its value at the reference price >= 1.1 *
\* ask_fixed_amount; a failed condition, balance read or price fetch ends
\* the run with an error before cleanup starts
C38_DualBalanceGate ==
  [][engine = "dual" =>
       /\ pc = "validate" => book' = book
       /\ ValidateStep =>
            /\ pc' \in {"clean", "crashed"}
            /\ pc' = "clean" =>
                 /\ faults' = faults
                 /\ GatePassed(Last(trace').price)
            /\ (faults' > faults \/ ~GatePassed(Last(trace').price)) =>
                 pc' = "crashed"]_vars

\* the check passed on balances that are exactly the two thresholds, and
\* the cleanup is about to start
C38_Witness ==
  /\ engine = "dual"
  /\ pc = "clean"
  /\ attempt = 0
  /\ trace = << Ev("validate", "-", "-", 100000, 0, "ok") >>
  /\ balance.usdt * 10 = BidFixedAmount * 11
  /\ balance.coin * 100000 * 10 = AskFixedAmount * 11

====
